---- MODULE Spec2Model ----
(***************************************************************************)
(* Model of shenfun's form-argument algebra (shenfun/forms/arguments.py):  *)
(* the leaves TestFunction / TrialFunction / Function and the linear       *)
(* expressions (Expr) built from them.                                     *)
(*                                                                         *)
(* Objects have identity.  A leaf is an entry of the heap `leaves`, an     *)
(* Expr an entry of `exprs`; the identity of an object is its position.    *)
(* The scales of an Expr are a numpy array; indexing an Expr returns views *)
(* of the arrays of the indexed Expr, so scale arrays live in their own    *)
(* heap `bufs` and an Expr refers to a block of rows of one buffer.        *)
(* terms and indices are never written in place by the code (they are only *)
(* rebound to new arrays), so they are kept by value.                      *)
(***************************************************************************)
EXTENDS Integers, Sequences, FiniteSets, TLC

VARIABLES leaves, fdata, exprs, bufs, last

vars == <<leaves, fdata, exprs, bufs, last>>

(***************************************************************************)
(* Bounds of the model.                                                    *)
(***************************************************************************)
MaxLeaves == 4
MaxExprs == 3
MaxShared == 2
MaxScale == 4
MaxCoef == 2
MaxTerms == 3
MaxLive == 1

(***************************************************************************)
(* Function spaces.  The tensor-product-space classes are collaborators of *)
(* arguments.py; the leaves use of a space only: rank, num_components(),   *)
(* dimensions, space[i] and ==.  The universe is                           *)
(*   B0, B1, B2 : one-dimensional bases                                    *)
(*   T  = B0 x B1, T2 = B2 x B1 : scalar two-dimensional spaces            *)
(*   VT = (T, T)   : vector space                                          *)
(*   MY = (T, T2)  : mixed space of two different scalar spaces            *)
(*   MX = (T2, VT) : nested mixed space, three components                  *)
(*   W  = (VT, VT) : space of four components (a tensor in two dimensions) *)
(*   L             : a one-dimensional space (a basis used as a space)     *)
(*   L2 = (L, L), L3 = (L, L, L) : composite one-dimensional spaces        *)
(*   T3 = B0 x B1 x B2 : scalar three-dimensional space                    *)
(***************************************************************************)
AxisBases == {"B0", "B1", "B2", "L"}
ScalarSpaces == {"T", "T2", "T3"}
CompositeSpaces == {"VT", "MY", "MX", "W", "L2", "L3"}
RootSpaces == {"T", "T2", "VT", "MY", "MX"}
Tags == {0, 1, 2}

SpaceSub(s) ==
  CASE s = "T" -> <<"B0", "B1">>
    [] s = "T2" -> <<"B2", "B1">>
    [] s = "VT" -> <<"T", "T">>
    [] s = "MY" -> <<"T", "T2">>
    [] s = "MX" -> <<"T2", "VT">>
    [] s = "W" -> <<"VT", "VT">>
    [] s = "L2" -> <<"L", "L">>
    [] s = "L3" -> <<"L", "L", "L">>
    [] s = "T3" -> <<"B0", "B1", "B2">>
    [] OTHER -> <<s>>

SpaceRank(s) == IF s \in CompositeSpaces THEN 1 ELSE 0

RECURSIVE SpaceDims(_)
SpaceDims(s) ==
  IF s \in AxisBases THEN 1
  ELSE IF s \in ScalarSpaces THEN Len(SpaceSub(s))
  ELSE SpaceDims(SpaceSub(s)[1])

RECURSIVE NumComponents(_)
RECURSIVE SumComponents(_, _)
\* sum of num_components() of the first i entries of the sequence subs
SumComponents(subs, i) ==
  IF i = 0 THEN 0 ELSE SumComponents(subs, i - 1) + NumComponents(subs[i])

NumComponents(s) ==
  IF SpaceRank(s) = 0 THEN 1 ELSE SumComponents(SpaceSub(s), Len(SpaceSub(s)))

\* space[i] raises for an index outside the space
SpaceHasItem(s, i) == i >= 0 /\ i < Len(SpaceSub(s))
SpaceGetItem(s, i) == SpaceSub(s)[i + 1]

(***************************************************************************)
(* Leaves.  base = 0 stands for None.  For a TestFunction / TrialFunction  *)
(* `base` is the _base field; for a Function it is the base attribute of   *)
(* the array type, which precedes BasisFunction in the method resolution   *)
(* order of class Function(ShenfunBaseArray, BasisFunction): None for an   *)
(* array that owns its memory, the owning array for a view.  arank is the  *)
(* _rank field of the array (used by Function only).  parent is a history  *)
(* field: the leaf this one was indexed from, 0 for a constructed leaf.    *)
(***************************************************************************)
BasisFunctionInit(tag, space) ==
  [tag |-> tag, space |-> space, index |-> 0, basespace |-> "None",
   offset |-> 0, base |-> 0, arank |-> SpaceRank(space), parent |-> 0]

\* property BasisFunction.rank, resp. DistArray.rank for a Function
LeafRank(h, l) == IF h[l].tag = 2 THEN h[l].arank ELSE SpaceRank(h[l].space)

\* property basespace
LeafBaseSpace(h, l) ==
  IF h[l].basespace # "None" THEN h[l].basespace ELSE h[l].space

\* attribute base as the operators of Expr read it (self._basis.base)
LeafBaseOf(h, l) ==
  IF h[l].tag = 2 THEN h[l].base
  ELSE IF h[l].base # 0 THEN h[l].base ELSE l

\* the outcome of leaf[i]: "leaf" (a new leaf), "data" (plain array data of a
\* Function that is not composite) or "error"
LeafGetItemKind(h, l, i) ==
  IF h[l].tag = 2
  THEN IF SpaceDims(h[l].space) = 1 /\ SpaceRank(h[l].space) = 0 THEN "data"
       ELSE IF LeafRank(h, l) > 0
            THEN IF SpaceHasItem(h[l].space, i) THEN "leaf" ELSE "error"
            ELSE "data"
  ELSE IF SpaceHasItem(h[l].space, i) THEN "leaf" ELSE "error"

LeafGetItemLocal(h, l, i) ==
  LET sub == SpaceGetItem(h[l].space, i)
      off == SumComponents(SpaceSub(h[l].space), i)
  IN [tag |-> h[l].tag, space |-> sub, index |-> IF h[l].tag = 2 THEN 0 ELSE i,
      basespace |-> IF h[l].tag = 2 THEN "None" ELSE LeafBaseSpace(h, l),
      offset |-> off,
      base |-> IF h[l].tag = 2 THEN (IF h[l].base = 0 THEN l ELSE h[l].base)
               ELSE LeafBaseOf(h, l),
      arank |-> IF h[l].tag # 2 THEN SpaceRank(sub)
                ELSE IF NumComponents(sub) > 1 THEN h[l].arank
                ELSE h[l].arank - 1,
      parent |-> l]

\* the leaf returned by leaf[i] when LeafGetItemKind is "leaf"
LeafGetItemNew(h, l, i) ==
  LET sub == SpaceGetItem(h[l].space, i)
      off == SumComponents(SpaceSub(h[l].space), i)
  IN IF h[l].tag = 2
     THEN [tag |-> 2, space |-> sub, index |-> 0, basespace |-> "None",
           offset |-> off + h[l].offset,
           base |-> IF h[l].base = 0 THEN l ELSE h[l].base,
           arank |-> IF NumComponents(sub) > 1 THEN h[l].arank
                     ELSE h[l].arank - 1,
           parent |-> l]
     ELSE [tag |-> h[l].tag, space |-> sub, index |-> i,
           basespace |-> LeafBaseSpace(h, l),
           offset |-> h[l].offset + off,
           base |-> LeafBaseOf(h, l),
           arank |-> SpaceRank(sub), parent |-> l]

(***************************************************************************)
(* Coefficient data of Functions: fdata[l] holds one coefficient per       *)
(* component for a Function that owns its array, <<>> for every other      *)
(* leaf.  A view reads and writes the rows offset .. offset+nc-1 of its    *)
(* owner.                                                                  *)
(***************************************************************************)
InitVals == {1}

FunctionData(tag, space, val) ==
  IF tag = 2 THEN [c \in 1..NumComponents(space) |-> val] ELSE <<>>

LeafOwner(h, l) == IF h[l].base = 0 THEN l ELSE h[l].base

LeafRows(h, l) == (h[l].offset + 1)..(h[l].offset + NumComponents(h[l].space))

InPlaceValue(op, x, a) ==
  CASE op = "imul" -> x * a
    [] op = "iadd" -> x + a
    [] op = "isub" -> x - a

\* op in {"imul", "iadd", "isub"} applied to a Function leaf is the in-place
\* operator of the array type: it updates the data and returns the leaf
ArrayInPlace(h, d, l, op, a) ==
  [d EXCEPT ![LeafOwner(h, l)] =
     [c \in 1..Len(@) |-> IF c \in LeafRows(h, l)
                          THEN InPlaceValue(op, @[c], a) ELSE @[c]]]

\* BasisFunction.__imul__, __iadd__, __isub__ raise; class Function resolves
\* the three operators to those of the array type
LeafInPlaceRaises(h, l) == h[l].tag # 2

(***************************************************************************)
(* The record of the last operation.                                       *)
(***************************************************************************)
NoArg == [tup |-> FALSE, v |-> <<>>]

Last(op, a, bk, b, arg, ok, kind, out) ==
  [op |-> op, a |-> a, bk |-> bk, b |-> b, arg |-> arg, ok |-> ok,
   kind |-> kind, out |-> out]

Abs(x) == IF x < 0 THEN -x ELSE x

(***************************************************************************)
(* Operations on leaves.                                                   *)
(***************************************************************************)
LeafGetItem(l, i) ==
  /\ Len(leaves) < MaxLeaves
  /\ LET kind == LeafGetItemKind(leaves, l, i)
     IN IF kind = "leaf"
        THEN /\ leaves' = Append(leaves, LeafGetItemNew(leaves, l, i))
             /\ fdata' = Append(fdata, <<>>)
             /\ last' = Last("leaf_getitem", l, "-", i, NoArg, TRUE, "leaf",
                             Len(leaves) + 1)
        ELSE /\ UNCHANGED <<leaves, fdata>>
             /\ last' = Last("leaf_getitem", l, "-", i, NoArg,
                             kind # "error", kind, 0)
  /\ UNCHANGED <<exprs, bufs>>

LeafInPlace(l, op, a) ==
  /\ IF LeafInPlaceRaises(leaves, l)
     THEN /\ UNCHANGED fdata
          /\ last' = Last("leaf_" \o op, l, "-", 0, [tup |-> FALSE, v |-> <<a>>],
                          FALSE, "error", 0)
     ELSE /\ fdata' = ArrayInPlace(leaves, fdata, l, op, a)
          /\ \A c \in 1..Len(fdata'[LeafOwner(leaves, l)]) :
                Abs(fdata'[LeafOwner(leaves, l)][c]) <= MaxCoef
          /\ last' = Last("leaf_" \o op, l, "-", 0, [tup |-> FALSE, v |-> <<a>>],
                          TRUE, "leaf", l)
  /\ UNCHANGED <<leaves, exprs, bufs>>

LeafIMul(l, a) == LeafInPlace(l, "imul", a)
LeafIAdd(l, a) == LeafInPlace(l, "iadd", a)
LeafISub(l, a) == LeafInPlace(l, "isub", a)

LeafIds == 1..Len(leaves)
ItemIndices == 0..2
Scalars == {2}

InitLeaf ==
  /\ \E tag \in Tags, space \in RootSpaces, val \in InitVals :
       /\ leaves = <<BasisFunctionInit(tag, space)>>
       /\ fdata = <<FunctionData(tag, space, val)>>
  /\ exprs = <<>>
  /\ bufs = <<>>
  /\ last = Last("init", 0, "-", 0, NoArg, TRUE, "none", 0)

NextLeaf ==
  \/ \E l \in LeafIds, i \in ItemIndices : LeafGetItem(l, i)
  \/ \E l \in LeafIds, a \in Scalars : LeafIMul(l, a)
  \/ \E l \in LeafIds, a \in Scalars : LeafIAdd(l, a)
  \/ \E l \in LeafIds, a \in Scalars : LeafISub(l, a)

SpecLeaf == InitLeaf /\ [][NextLeaf]_vars

(***************************************************************************)
(* Exprs.  An Expr value is the triple of arrays with its leaf:            *)
(*   terms[c][t][d]  derivative order of term t of component c along d     *)
(*   scales[c][t], indices[c][t]                                           *)
(* Scales are integers (the code holds sympy numbers).  An operator of     *)
(* Expr is modelled by an operator that returns the value of the Expr it   *)
(* builds, with ok = FALSE when the code raises.                           *)
(***************************************************************************)
None == [v |-> <<>>, some |-> FALSE]
Some(x) == [v |-> x, some |-> TRUE]

Raised == [ok |-> FALSE, basis |-> 0, terms |-> <<>>, scales |-> <<>>,
           indices |-> <<>>]

ExprNumComponents(v) == Len(v.terms)
ExprNumTerms(v) == Len(v.terms[1])
ExprDimensions(v) == Len(v.terms[1][1])

\* np.prod(shape) of a two-dimensional array
ArraySize(m) == IF Len(m) = 0 THEN 0 ELSE Len(m) * Len(m[1])

\* Expr.__init__; a basis of None has no function_space()
ExprInit(h, basis, terms, scales, indices) ==
  IF basis = 0 THEN Raised
  ELSE LET nc == NumComponents(h[basis].space)
           ndim == SpaceDims(h[basis].space)
           t == IF terms.some THEN terms.v
                ELSE [c \in 1..nc |-> <<[d \in 1..ndim |-> 0]>>]
           s == IF scales.some THEN scales.v ELSE [c \in 1..nc |-> <<1>>]
           x == IF indices.some THEN indices.v
                ELSE [c \in 1..nc |-> <<h[basis].offset + (c - 1)>>]
       IN IF ArraySize(s) = ArraySize([c \in 1..Len(t) |-> [k \in 1..Len(t[1]) |-> 0]])
          THEN [ok |-> TRUE, basis |-> basis, terms |-> t, scales |-> s,
                indices |-> x]
          ELSE Raised

\* Expr(leaf): the leaf lifted to an Expr
Lift(h, l) == ExprInit(h, l, None, None, None)

\* Expr(leaf, terms): one term per component, derivative of order k along the
\* first axis
DerivTerms(h, l, k) ==
  [c \in 1..NumComponents(h[l].space) |->
     <<[d \in 1..SpaceDims(h[l].space) |-> IF d = 1 THEN k ELSE 0]>>]

ConcatTermsFlipped(x, y) == [c \in 1..Len(x) |-> y[c] \o x[c]]

\* np.concatenate(..., axis=1) of two arrays with one row per component
ConcatTerms(x, y) == [c \in 1..Len(x) |-> x[c] \o y[c]]

NegScales(s) == [c \in 1..Len(s) |-> [t \in 1..Len(s[c]) |-> -s[c][t]]]

\* the leaf of the result of +, -, +=, -=: 0 when the base check fails
CommonBasis(h, a, b) ==
  IF a.basis = b.basis THEN [ok |-> TRUE, basis |-> a.basis]
  ELSE IF LeafBaseOf(h, a.basis) = LeafBaseOf(h, b.basis)
       THEN [ok |-> TRUE, basis |-> LeafBaseOf(h, a.basis)]
       ELSE [ok |-> FALSE, basis |-> 0]

\* np.concatenate raises unless the arrays agree in every other axis
ConcatOK(a, b) ==
  /\ ExprNumComponents(a) = ExprNumComponents(b)
  /\ ExprDimensions(a) = ExprDimensions(b)

\* an Expr whose _basis is None has no function_space() and no argument
HasBasis(a) == a.basis # 0

ExprAddAnySpace(h, a, b) ==
  IF ExprNumComponents(a) # ExprNumComponents(b) THEN Raised
  ELSE IF ~HasBasis(a) \/ ~HasBasis(b) THEN Raised
  ELSE IF h[a.basis].tag # h[b.basis].tag THEN Raised
  ELSE IF ~CommonBasis(h, a, b).ok THEN Raised
  ELSE IF ~ConcatOK(a, b) THEN Raised
  ELSE ExprInit(h, CommonBasis(h, a, b).basis,
                Some(ConcatTerms(a.terms, b.terms)),
                Some(ConcatTerms(a.scales, b.scales)),
                Some(ConcatTerms(a.indices, b.indices)))

ExprAdd(h, a, b) ==
  IF ExprNumComponents(a) # ExprNumComponents(b) THEN Raised
  ELSE IF ~HasBasis(a) \/ ~HasBasis(b) THEN Raised
  ELSE IF h[a.basis].space # h[b.basis].space THEN Raised
  ELSE IF h[a.basis].tag # h[b.basis].tag THEN Raised
  ELSE IF ~CommonBasis(h, a, b).ok THEN Raised
  ELSE IF ~ConcatOK(a, b) THEN Raised
  ELSE ExprInit(h, CommonBasis(h, a, b).basis,
                Some(ConcatTerms(a.terms, b.terms)),
                Some(ConcatTerms(a.scales, b.scales)),
                Some(ConcatTerms(a.indices, b.indices)))

ExprSubKeepsSign(h, a, b) ==
  IF ExprNumComponents(a) # ExprNumComponents(b) THEN Raised
  ELSE IF ~HasBasis(a) \/ ~HasBasis(b) THEN Raised
  ELSE IF h[a.basis].tag # h[b.basis].tag THEN Raised
  ELSE IF ~CommonBasis(h, a, b).ok THEN Raised
  ELSE IF ~ConcatOK(a, b) THEN Raised
  ELSE ExprInit(h, CommonBasis(h, a, b).basis,
                Some(ConcatTerms(a.terms, b.terms)),
                Some(ConcatTerms(a.scales, b.scales)),
                Some(ConcatTerms(a.indices, b.indices)))

ExprSubSameSpace(h, a, b) ==
  IF ExprNumComponents(a) # ExprNumComponents(b) THEN Raised
  ELSE IF ~HasBasis(a) \/ ~HasBasis(b) THEN Raised
  ELSE IF h[a.basis].space # h[b.basis].space THEN Raised
  ELSE IF h[a.basis].tag # h[b.basis].tag THEN Raised
  ELSE IF ~CommonBasis(h, a, b).ok THEN Raised
  ELSE IF ~ConcatOK(a, b) THEN Raised
  ELSE ExprInit(h, CommonBasis(h, a, b).basis,
                Some(ConcatTerms(a.terms, b.terms)),
                Some(ConcatTerms(a.scales, NegScales(b.scales))),
                Some(ConcatTerms(a.indices, b.indices)))

ExprSub(h, a, b) ==
  IF ExprNumComponents(a) # ExprNumComponents(b) THEN Raised
  ELSE IF ~HasBasis(a) \/ ~HasBasis(b) THEN Raised
  ELSE IF h[a.basis].tag # h[b.basis].tag THEN Raised
  ELSE IF ~CommonBasis(h, a, b).ok THEN Raised
  ELSE IF ~ConcatOK(a, b) THEN Raised
  ELSE ExprInit(h, CommonBasis(h, a, b).basis,
                Some(ConcatTerms(a.terms, b.terms)),
                Some(ConcatTerms(a.scales, NegScales(b.scales))),
                Some(ConcatTerms(a.indices, b.indices)))

ExprIAddScalesOnly(h, a, b) ==
  IF ExprNumComponents(a) # ExprNumComponents(b) THEN Raised
  ELSE IF ~HasBasis(a) \/ ~HasBasis(b) THEN Raised
  ELSE IF h[a.basis].space # h[b.basis].space THEN Raised
  ELSE IF h[a.basis].tag # h[b.basis].tag THEN Raised
  ELSE IF ~CommonBasis(h, a, b).ok THEN Raised
  ELSE [ok |-> TRUE, basis |-> CommonBasis(h, a, b).basis,
        terms |-> a.terms,
        scales |-> ConcatTerms(a.scales, b.scales),
        indices |-> ConcatTerms(a.indices, b.indices)]

\* Expr.__iadd__: the fields the receiver is rebound to; Expr.__init__ and
\* its assertion are not run
ExprIAdd(h, a, b) ==
  IF ExprNumComponents(a) # ExprNumComponents(b) THEN Raised
  ELSE IF ~HasBasis(a) \/ ~HasBasis(b) THEN Raised
  ELSE IF h[a.basis].space # h[b.basis].space THEN Raised
  ELSE IF h[a.basis].tag # h[b.basis].tag THEN Raised
  ELSE IF ~CommonBasis(h, a, b).ok THEN Raised
  ELSE [ok |-> TRUE, basis |-> CommonBasis(h, a, b).basis,
        terms |-> ConcatTerms(a.terms, b.terms),
        scales |-> ConcatTerms(a.scales, b.scales),
        indices |-> ConcatTerms(a.indices, b.indices)]

\* Expr.__isub__
ExprISub(h, a, b) ==
  IF ExprNumComponents(a) # ExprNumComponents(b) THEN Raised
  ELSE IF ~HasBasis(a) \/ ~HasBasis(b) THEN Raised
  ELSE IF h[a.basis].space # h[b.basis].space THEN Raised
  ELSE IF h[a.basis].tag # h[b.basis].tag THEN Raised
  ELSE IF ~CommonBasis(h, a, b).ok THEN Raised
  ELSE [ok |-> TRUE, basis |-> CommonBasis(h, a, b).basis,
        terms |-> ConcatTerms(a.terms, b.terms),
        scales |-> ConcatTerms(a.scales, NegScales(b.scales)),
        indices |-> ConcatTerms(a.indices, b.indices)]

ExprNegKeeps(h, a) ==
  ExprInit(h, a.basis, Some(a.terms), Some(a.scales), Some(a.indices))

ExprNeg(h, a) ==
  ExprInit(h, a.basis, Some(a.terms), Some(NegScales(a.scales)), Some(a.indices))

ExprRankAnyDimension(a) ==
  LET nc == ExprNumComponents(a)
      ndim == ExprDimensions(a)
  IN IF nc = 1 THEN [ok |-> TRUE, rank |-> 0]
     ELSE IF nc = ndim THEN [ok |-> TRUE, rank |-> 1]
     ELSE IF nc = ndim * ndim THEN [ok |-> TRUE, rank |-> 2]
     ELSE [ok |-> TRUE, rank |-> -1]

\* Expr.expr_rank: rank -1 stands for the None the method falls through to
ExprRank(a) ==
  LET nc == ExprNumComponents(a)
      ndim == ExprDimensions(a)
  IN IF ndim = 1
     THEN IF nc < 3 THEN [ok |-> TRUE, rank |-> nc - 1]
          ELSE [ok |-> FALSE, rank |-> -1]
     ELSE IF nc = 1 THEN [ok |-> TRUE, rank |-> 0]
     ELSE IF nc = ndim THEN [ok |-> TRUE, rank |-> 1]
     ELSE IF nc = ndim * ndim THEN [ok |-> TRUE, rank |-> 2]
     ELSE [ok |-> TRUE, rank |-> -1]

\* a multiplier is a scalar, [tup |-> FALSE, v |-> <<x>>], or a tuple
Scalar(x) == [tup |-> FALSE, v |-> <<x>>]
Tuple(t) == [tup |-> TRUE, v |-> t]

ScaleAll(s, x) == [c \in 1..Len(s) |-> [t \in 1..Len(s[c]) |-> s[c][t] * x]]

\* rows 1..n of s multiplied by the entries of the tuple t, the others kept
ScaleRows(s, t, n) ==
  [c \in 1..Len(s) |->
     IF c <= n THEN [k \in 1..Len(s[c]) |-> s[c][k] * t[c]] ELSE s[c]]

MulScalesFirst(a, m) == ScaleAll(a.scales, m.v[1])

\* the scales computed by Expr.__mul__
MulScales(a, m) ==
  IF ExprRank(a).rank = 0 \/ ~m.tup THEN ScaleAll(a.scales, m.v[1])
  ELSE ScaleRows(a.scales, m.v, ExprNumComponents(a))

ExprMul(h, a, m) ==
  IF ~ExprRank(a).ok THEN Raised
  ELSE IF ExprRank(a).rank # 0 /\ m.tup /\ Len(m.v) # ExprNumComponents(a)
       THEN Raised
  ELSE ExprInit(h, a.basis, Some(a.terms), Some(MulScales(a, m)), Some(a.indices))

Min(x, y) == IF x < y THEN x ELSE y

\* Expr.__imul__: the scales left in the array the Expr is bound to, and
\* whether the method returns
ExprIMul(a, m) ==
  IF ~ExprRank(a).ok THEN [ok |-> FALSE, scales |-> a.scales]
  ELSE IF ExprRank(a).rank = 0 \/ ~m.tup
       THEN [ok |-> TRUE, scales |-> ScaleAll(a.scales, m.v[1])]
  ELSE IF Len(m.v) # ExprDimensions(a) THEN [ok |-> FALSE, scales |-> a.scales]
  ELSE [ok |-> ExprDimensions(a) <= ExprNumComponents(a),
        scales |-> ScaleRows(a.scales, m.v,
                             Min(ExprDimensions(a), ExprNumComponents(a)))]

NoItem == [ok |-> FALSE, terms |-> <<>>, indices |-> <<>>, n |-> 0,
           newleaf |-> FALSE, lo |-> 0]

ExprGetItemRows(h, a, i) ==
  LET newleaf == HasBasis(a) /\ LeafRank(h, a.basis) > 0
      nc == ExprNumComponents(a)
      lo == Min(i, nc)
      hi == Min(i + ExprDimensions(a), nc)
  IN IF ~HasBasis(a) THEN NoItem
     ELSE IF newleaf /\ LeafGetItemKind(h, a.basis, i) # "leaf" THEN NoItem
     ELSE IF ~ExprRank(a).ok THEN NoItem
     ELSE IF ExprRank(a).rank = 1 /\ i >= nc THEN NoItem
     ELSE IF ExprRank(a).rank \notin {1, 2} THEN NoItem
     ELSE [ok |-> TRUE, terms |-> SubSeq(a.terms, lo + 1, hi),
           indices |-> SubSeq(a.indices, lo + 1, hi),
           n |-> hi - lo,
           newleaf |-> newleaf, lo |-> lo]

\* Expr.__getitem__: the rows lo+1 .. lo+n of the three arrays, as views, and
\* whether the leaf is indexed too
ExprGetItem(h, a, i) ==
  LET newleaf == HasBasis(a) /\ LeafRank(h, a.basis) > 0
      nc == ExprNumComponents(a)
      ndim == ExprDimensions(a)
      lo == IF ExprRank(a).rank = 1 THEN i ELSE Min(i * ndim, nc)
      hi == IF ExprRank(a).rank = 1 THEN i + 1 ELSE Min((i + 1) * ndim, nc)
  IN IF ~HasBasis(a) THEN NoItem
     ELSE IF newleaf /\ LeafGetItemKind(h, a.basis, i) # "leaf" THEN NoItem
     ELSE IF ~ExprRank(a).ok THEN NoItem
     ELSE IF ExprRank(a).rank = 1 /\ i >= nc THEN NoItem
     ELSE IF ExprRank(a).rank \notin {1, 2} THEN NoItem
     ELSE [ok |-> TRUE, terms |-> SubSeq(a.terms, lo + 1, hi),
           indices |-> SubSeq(a.indices, lo + 1, hi),
           n |-> hi - lo,
           newleaf |-> newleaf, lo |-> lo]

\* the exception Expr.__getitem__ ends with, "none" when it returns
ExprGetItemError(h, a, i) ==
  IF ~HasBasis(a) THEN "AttributeError"
  ELSE IF LeafRank(h, a.basis) > 0 /\ LeafGetItemKind(h, a.basis, i) # "leaf"
       THEN "IndexError"
  ELSE IF ~ExprRank(a).ok THEN "AssertionError"
  ELSE IF ExprRank(a).rank = 1 /\ i >= ExprNumComponents(a) THEN "IndexError"
  ELSE IF ExprRank(a).rank \notin {1, 2} THEN "NotImplementedError"
  ELSE "none"

(***************************************************************************)
(* The Expr heap.                                                          *)
(***************************************************************************)
ExprIds == 1..Len(exprs)

\* the scales array an Expr is bound to: rows lo+1 .. lo+n of its buffer
ViewOf(b, sc) == SubSeq(b[sc.buf], sc.lo + 1, sc.lo + sc.n)

ExprValueIn(e, b) ==
  [ok |-> TRUE, basis |-> e.basis, terms |-> e.terms,
   scales |-> ViewOf(b, e.sc), indices |-> e.indices]

ExprValue(e) == ExprValueIn(exprs[e], bufs)

\* the right operand of a binary operator: an Expr, or a leaf that the
\* operator lifts first
Operand(bk, b) == IF bk = "E" THEN ExprValue(b) ELSE Lift(leaves, b)

OperandIds(bk) == IF bk = "E" THEN ExprIds ELSE LeafIds

\* bind a newly built Expr, whose scales are a new array
Bind(v, op, a, bk, b, arg) ==
  IF v.ok
  THEN /\ exprs' = Append(exprs, [basis |-> v.basis, terms |-> v.terms,
                                  indices |-> v.indices,
                                  sc |-> [n |-> Len(v.scales), lo |-> 0,
                                          buf |-> Len(bufs) + 1]])
       /\ bufs' = Append(bufs, v.scales)
       /\ last' = Last(op, a, bk, b, arg, TRUE, "expr", Len(exprs) + 1)
  ELSE /\ UNCHANGED <<exprs, bufs>>
       /\ last' = Last(op, a, bk, b, arg, FALSE, "error", 0)

NewExpr(l, k) ==
  /\ Len(exprs) < MaxExprs
  /\ Bind(IF k = 0 THEN Lift(leaves, l)
          ELSE ExprInit(leaves, l, Some(DerivTerms(leaves, l, k)), None, None),
          "new", l, "-", k, NoArg)
  /\ UNCHANGED <<leaves, fdata>>

Add(a, bk, b) ==
  /\ Len(exprs) < MaxExprs
  /\ Bind(ExprAdd(leaves, ExprValue(a), Operand(bk, b)), "add", a, bk, b, NoArg)
  /\ UNCHANGED <<leaves, fdata>>

Sub(a, bk, b) ==
  /\ Len(exprs) < MaxExprs
  /\ Bind(ExprSub(leaves, ExprValue(a), Operand(bk, b)), "sub", a, bk, b, NoArg)
  /\ UNCHANGED <<leaves, fdata>>

Neg(a) ==
  /\ Len(exprs) < MaxExprs
  /\ Bind(ExprNeg(leaves, ExprValue(a)), "neg", a, "-", 0, NoArg)
  /\ UNCHANGED <<leaves, fdata>>

\* a tuple multiplier of a rank-0 Expr is left out: the code hands it to
\* sympy.sympify and to the array product, outside the contract of __mul__
MultiplierOK(a, m) == ~(m.tup /\ ExprRank(ExprValue(a)).rank = 0)

Mul(a, m) ==
  /\ Len(exprs) < MaxExprs
  /\ MultiplierOK(a, m)
  /\ Bind(ExprMul(leaves, ExprValue(a), m), "mul", a, "-", 0, m)
  /\ UNCHANGED <<leaves, fdata>>

GetItem(a, i) ==
  /\ Len(exprs) < MaxExprs
  /\ Len(leaves) < MaxLeaves
  /\ LET r == ExprGetItem(leaves, ExprValue(a), i)
     IN IF r.ok
        THEN /\ leaves' = IF r.newleaf
                          THEN Append(leaves, LeafGetItemNew(leaves, exprs[a].basis, i))
                          ELSE leaves
             /\ fdata' = IF r.newleaf THEN Append(fdata, <<>>) ELSE fdata
             /\ exprs' = Append(exprs,
                   [basis |-> IF r.newleaf THEN Len(leaves) + 1 ELSE exprs[a].basis,
                    terms |-> r.terms,
                    indices |-> r.indices,
                    sc |-> [n |-> r.n, lo |-> exprs[a].sc.lo + r.lo,
                            buf |-> exprs[a].sc.buf]])
             /\ last' = Last("getitem", a, "-", i, NoArg, TRUE, "expr",
                             Len(exprs) + 1)
        ELSE /\ UNCHANGED <<leaves, fdata, exprs>>
             /\ last' = Last("getitem", a, "-", i, NoArg, FALSE,
                             ExprGetItemError(leaves, ExprValue(a), i), 0)
  /\ UNCHANGED bufs

\* write the array s over the rows the Expr e is bound to
WriteView(b, sc, s) ==
  [b EXCEPT ![sc.buf] =
     [r \in 1..Len(@) |-> IF r > sc.lo /\ r <= sc.lo + sc.n THEN s[r - sc.lo]
                          ELSE @[r]]]

IMul(a, m) ==
  /\ MultiplierOK(a, m)
  /\ LET r == ExprIMul(ExprValue(a), m)
     IN /\ \A c \in 1..Len(r.scales) : \A t \in 1..Len(r.scales[c]) :
             Abs(r.scales[c][t]) <= MaxScale
        /\ bufs' = WriteView(bufs, exprs[a].sc, r.scales)
        /\ last' = Last("imul", a, "-", 0, m, r.ok,
                        IF r.ok THEN "expr" ELSE "error", IF r.ok THEN a ELSE 0)
  /\ UNCHANGED <<leaves, fdata, exprs>>

(***************************************************************************)
(* Names.  A program holds its Exprs in a bounded number of names; the     *)
(* result of an operator is bound to a free name or to a name that is      *)
(* given up (x = a + b), and += / -= rebind the fields of their receiver.  *)
(* An array that no Expr refers to any more is released.                   *)
(***************************************************************************)
\* the names a result can be bound to
Names == IF Len(exprs) < MaxLive THEN {Len(exprs) + 1} ELSE 1..MaxLive

Place(ex, n, rec) == IF n > Len(ex) THEN Append(ex, rec) ELSE [ex EXCEPT ![n] = rec]

\* the arrays in use and their position among the arrays in use
UsedBufs(ex) == {ex[e].sc.buf : e \in 1..Len(ex)}
BufPos(ex, b) == Cardinality({u \in UsedBufs(ex) : u <= b})
ReleaseExprs(ex) ==
  [e \in 1..Len(ex) |-> [ex[e] EXCEPT !.sc.buf = BufPos(ex, @)]]
ReleaseBufs(ex, bf) ==
  [i \in 1..Cardinality(UsedBufs(ex)) |->
     bf[CHOOSE u \in UsedBufs(ex) : BufPos(ex, u) = i]]

ScalesBounded(sc) ==
  \A c \in 1..Len(sc) : \A t \in 1..Len(sc[c]) : Abs(sc[c][t]) <= MaxScale

\* bind the name n to the Expr v, whose scales are a new array
Keep(v, n, op, a, bk, b, arg) ==
  IF v.ok
  THEN LET ex == Place(exprs, n,
                       [basis |-> v.basis, terms |-> v.terms,
                        indices |-> v.indices,
                        sc |-> [n |-> Len(v.scales), lo |-> 0,
                                buf |-> Len(bufs) + 1]])
       IN /\ ExprNumTerms(v) <= MaxTerms
          /\ ScalesBounded(v.scales)
          /\ exprs' = ReleaseExprs(ex)
          /\ bufs' = ReleaseBufs(ex, Append(bufs, v.scales))
          /\ last' = Last(op, a, bk, b, arg, TRUE, "expr", n)
  ELSE /\ UNCHANGED <<exprs, bufs>>
       /\ last' = Last(op, a, bk, b, arg, FALSE, "error", 0)

LetNew(n, l, k) ==
  /\ Keep(IF k = 0 THEN Lift(leaves, l)
          ELSE ExprInit(leaves, l, Some(DerivTerms(leaves, l, k)), None, None),
          n, "new", l, "-", k, NoArg)
  /\ UNCHANGED <<leaves, fdata>>

LetAdd(n, a, bk, b) ==
  /\ Keep(ExprAdd(leaves, ExprValue(a), Operand(bk, b)), n, "add", a, bk, b, NoArg)
  /\ UNCHANGED <<leaves, fdata>>

LetSub(n, a, bk, b) ==
  /\ Keep(ExprSub(leaves, ExprValue(a), Operand(bk, b)), n, "sub", a, bk, b, NoArg)
  /\ UNCHANGED <<leaves, fdata>>

LetNeg(n, a) ==
  /\ Keep(ExprNeg(leaves, ExprValue(a)), n, "neg", a, "-", 0, NoArg)
  /\ UNCHANGED <<leaves, fdata>>

LetMul(n, a, m) ==
  /\ MultiplierOK(a, m)
  /\ Keep(ExprMul(leaves, ExprValue(a), m), n, "mul", a, "-", 0, m)
  /\ UNCHANGED <<leaves, fdata>>

\* x = a[i]: the name is bound to views of the arrays of a
LetGetItem(n, a, i) ==
  /\ LET r == ExprGetItem(leaves, ExprValue(a), i)
     IN IF r.ok
        THEN LET ex == Place(exprs, n,
                   [basis |-> IF r.newleaf THEN Len(leaves) + 1 ELSE exprs[a].basis,
                    terms |-> r.terms,
                    indices |-> r.indices,
                    sc |-> [n |-> r.n, lo |-> exprs[a].sc.lo + r.lo,
                            buf |-> exprs[a].sc.buf]])
             IN /\ r.newleaf => Len(leaves) < MaxLeaves
                /\ leaves' = IF r.newleaf
                             THEN Append(leaves, LeafGetItemNew(leaves, exprs[a].basis, i))
                             ELSE leaves
                /\ fdata' = IF r.newleaf THEN Append(fdata, <<>>) ELSE fdata
                /\ exprs' = ReleaseExprs(ex)
                /\ bufs' = ReleaseBufs(ex, bufs)
                /\ last' = Last("getitem", a, "-", i, NoArg, TRUE, "expr", n)
        ELSE /\ UNCHANGED <<leaves, fdata, exprs, bufs>>
             /\ last' = Last("getitem", a, "-", i, NoArg, FALSE,
                             ExprGetItemError(leaves, ExprValue(a), i), 0)

IAdd(a, bk, b) ==
  /\ Keep(ExprIAdd(leaves, ExprValue(a), Operand(bk, b)), a, "iadd", a, bk, b, NoArg)
  /\ UNCHANGED <<leaves, fdata>>

ISub(a, bk, b) ==
  /\ Keep(ExprISub(leaves, ExprValue(a), Operand(bk, b)), a, "isub", a, bk, b, NoArg)
  /\ UNCHANGED <<leaves, fdata>>

\* Expr.eval reads the Expr and writes its output array only; it needs the
\* coefficients of a Function
Eval(a) ==
  /\ last' = Last("eval", a, "-", 0, NoArg, leaves[exprs[a].basis].tag = 2,
                  IF leaves[exprs[a].basis].tag = 2 THEN "data" ELSE "error", 0)
  /\ UNCHANGED <<leaves, fdata, exprs, bufs>>


(***************************************************************************)
(* Leaves the algebra starts from: heaps built by the leaf constructors    *)
(* and by indexing.                                                        *)
(***************************************************************************)
IndexHeap(h, l, i) == Append(h, LeafGetItemNew(h, l, i))

\* a leaf on a composite space with its two components
ComponentsHeap(tag, space) ==
  IndexHeap(IndexHeap(<<BasisFunctionInit(tag, space)>>, 1, 0), 1, 1)

RootsHeap(t1, t2, t3, space) ==
  <<BasisFunctionInit(t1, space), BasisFunctionInit(t2, space),
    BasisFunctionInit(t3, space)>>

LeafHeaps ==
  {ComponentsHeap(0, "MY"), ComponentsHeap(2, "MY"), ComponentsHeap(2, "VT"),
   ComponentsHeap(0, "VT"),
   RootsHeap(0, 1, 0, "T"), RootsHeap(2, 2, 0, "T")}

HeapData(h, val) ==
  [l \in 1..Len(h) |-> IF h[l].base = 0
                       THEN FunctionData(h[l].tag, h[l].space, val) ELSE <<>>]

DerivOrders == 0..1
OperandKinds == {"E", "L"}

InitAlgebra ==
  /\ \E h \in LeafHeaps, val \in InitVals :
       /\ leaves = h
       /\ fdata = HeapData(h, val)
  /\ exprs = <<>>
  /\ bufs = <<>>
  /\ last = Last("init", 0, "-", 0, NoArg, TRUE, "none", 0)

NextAddSub ==
  \/ \E l \in LeafIds, k \in DerivOrders : NewExpr(l, k)
  \/ \E a \in ExprIds, bk \in OperandKinds : \E b \in OperandIds(bk) : Add(a, bk, b)
  \/ \E a \in ExprIds, bk \in OperandKinds : \E b \in OperandIds(bk) : Sub(a, bk, b)

SpecAddSub == InitAlgebra /\ [][NextAddSub]_vars

Multipliers == {Scalar(2), Tuple(<<2, 3>>), Tuple(<<2, 3, 5>>)}

NextScale ==
  \/ \E l \in LeafIds, k \in DerivOrders : NewExpr(l, k)
  \/ \E a \in ExprIds : Neg(a)
  \/ \E a \in ExprIds, m \in Multipliers : Mul(a, m)

SpecScale == InitAlgebra /\ [][NextScale]_vars

(***************************************************************************)
(* All operations of Expr together, on a heap of at most MaxShared Exprs.  *)
(***************************************************************************)
Room == Len(exprs) < MaxShared

NextExpr ==
  \/ \E l \in LeafIds, k \in DerivOrders : Room /\ NewExpr(l, k)
  \/ \E a \in ExprIds, bk \in OperandKinds :
        \E b \in OperandIds(bk) : Room /\ Add(a, bk, b)
  \/ \E a \in ExprIds, bk \in OperandKinds :
        \E b \in OperandIds(bk) : Room /\ Sub(a, bk, b)
  \/ \E a \in ExprIds : Room /\ Neg(a)
  \/ \E a \in ExprIds, m \in Multipliers : Room /\ Mul(a, m)
  \/ \E a \in ExprIds, i \in ItemIndices : Room /\ GetItem(a, i)
  \/ \E a \in ExprIds, m \in Multipliers : IMul(a, m)
  \/ \E a \in ExprIds : Eval(a)

\* one constructed leaf: a vector test function, a mixed Function, a scalar
\* trial function
SingleHeaps ==
  {<<BasisFunctionInit(0, "VT")>>, <<BasisFunctionInit(2, "MY")>>,
   <<BasisFunctionInit(1, "T")>>}

InitExpr ==
  /\ \E h \in SingleHeaps, val \in InitVals :
       /\ leaves = h
       /\ fdata = HeapData(h, val)
  /\ exprs = <<>>
  /\ bufs = <<>>
  /\ last = Last("init", 0, "-", 0, NoArg, TRUE, "none", 0)

SpecExpr == InitExpr /\ [][NextExpr]_vars

(***************************************************************************)
(* Every operator of Expr, the in-place ones included, on heaps where      *)
(* the operands are rebound to a base, views are shared and spaces differ. *)
(***************************************************************************)
\* multipliers that keep every scale at 1 or -1
SignMultipliers == {Scalar(-1), Tuple(<<-1, 1>>)}

NextShape ==
  \/ \E n \in Names, l \in LeafIds, k \in DerivOrders : LetNew(n, l, k)
  \/ \E n \in Names, a \in ExprIds, bk \in OperandKinds :
        \E b \in OperandIds(bk) : LetAdd(n, a, bk, b)
  \/ \E n \in Names, a \in ExprIds, bk \in OperandKinds :
        \E b \in OperandIds(bk) : LetSub(n, a, bk, b)
  \/ \E n \in Names, a \in ExprIds : LetNeg(n, a)
  \/ \E n \in Names, a \in ExprIds, m \in SignMultipliers : LetMul(n, a, m)
  \/ \E n \in Names, a \in ExprIds, i \in ItemIndices : LetGetItem(n, a, i)
  \/ \E a \in ExprIds, m \in SignMultipliers : IMul(a, m)
  \/ \E a \in ExprIds, bk \in OperandKinds :
        \E b \in OperandIds(bk) : IAdd(a, bk, b)
  \/ \E a \in ExprIds, bk \in OperandKinds :
        \E b \in OperandIds(bk) : ISub(a, bk, b)

\* the components of a vector test function; two Functions constructed
\* separately; a scalar test function and the leaf indexed from it
ShapeHeaps ==
  {ComponentsHeap(0, "VT"),
   <<BasisFunctionInit(2, "T"), BasisFunctionInit(2, "T")>>,
   IndexHeap(<<BasisFunctionInit(0, "T")>>, 1, 0)}

InitShape ==
  /\ \E h \in ShapeHeaps, val \in InitVals :
       /\ leaves = h
       /\ fdata = HeapData(h, val)
  /\ exprs = <<>>
  /\ bufs = <<>>
  /\ last = Last("init", 0, "-", 0, NoArg, TRUE, "none", 0)

SpecShape == InitShape /\ [][NextShape]_vars

(***************************************************************************)
(* Exprs of every rank: leaves on spaces of one, two and three dimensions  *)
(* and of one to four components, and Exprs given their arrays the way     *)
(* grad and div(grad) build them.                                          *)
(***************************************************************************)
\* terms of grad of a scalar: component c differentiates once along axis c
GradTerms(d) == [c \in 1..d |-> <<[k \in 1..d |-> IF k = c THEN 1 ELSE 0]>>]

\* terms of div(grad) of a scalar: one component, term t differentiates
\* twice along axis t
DivGradTerms(d) == <<[t \in 1..d |-> [k \in 1..d |-> IF k = t THEN 2 ELSE 0]]>>

\* an array of the shape terms.shape[:2] filled with x
Filled(terms, x) == [c \in 1..Len(terms) |-> [t \in 1..Len(terms[c]) |-> x]]

Patterns == {"lift", "grad", "divgrad"}

\* Expr(leaf, terms, scales, indices) with the three arrays given
ExprOfPattern(h, l, p) ==
  LET d == SpaceDims(h[l].space)
      terms == IF p = "grad" THEN GradTerms(d) ELSE DivGradTerms(d)
  IN IF p = "lift" THEN Lift(h, l)
     ELSE ExprInit(h, l, Some(terms), Some(Filled(terms, 1)),
                   Some(Filled(terms, h[l].offset)))

LetPattern(n, l, p) ==
  /\ Keep(ExprOfPattern(leaves, l, p), n, "new", l, p, 0, NoArg)
  /\ UNCHANGED <<leaves, fdata>>

\* e.expr_rank(): kind "rank" with the rank in out, kind "none" when the
\* method returns None, kind "error" when its assertion fails
Rank(a) ==
  /\ LET r == ExprRank(ExprValue(a))
     IN last' = Last("expr_rank", a, "-", 0, NoArg, r.ok,
                     IF ~r.ok THEN "error" ELSE IF r.rank < 0 THEN "none" ELSE "rank",
                     IF r.ok /\ r.rank >= 0 THEN r.rank ELSE 0)
  /\ UNCHANGED <<leaves, fdata, exprs, bufs>>

RankMultipliers == {Scalar(2), Tuple(<<2, 3>>)}

NextRank ==
  \/ \E n \in Names, l \in LeafIds, p \in Patterns : LetPattern(n, l, p)
  \/ \E a \in ExprIds : Rank(a)
  \/ \E n \in Names, a \in ExprIds, m \in RankMultipliers : LetMul(n, a, m)
  \/ \E n \in Names, a \in ExprIds, i \in ItemIndices : LetGetItem(n, a, i)
  \/ \E a \in ExprIds, m \in RankMultipliers : IMul(a, m)

RankSpaces == {"L", "L2", "L3", "T", "VT", "MX", "W", "T3"}

InitRank ==
  /\ \E sp \in RankSpaces :
       /\ leaves = <<BasisFunctionInit(0, sp)>>
       /\ fdata = <<<<>>>>
  /\ exprs = <<>>
  /\ bufs = <<>>
  /\ last = Last("init", 0, "-", 0, NoArg, TRUE, "none", 0)

SpecRank == InitRank /\ [][NextRank]_vars

(***************************************************************************)
(* Properties.  They read the record of the last operation and the heaps.  *)
(***************************************************************************)
RECURSIVE RootOf(_)
\* the constructed leaf a leaf was indexed from, through any chain
RootOf(l) == IF leaves[l].parent = 0 THEN l ELSE RootOf(leaves[l].parent)

\* a leaf seen as an Expr: one zero-derivative, unit-scale term per component
LeafAsExpr(l) ==
  LET nc == NumComponents(leaves[l].space)
  IN [basis |-> l,
      terms |-> [c \in 1..nc |-> <<[d \in 1..SpaceDims(leaves[l].space) |-> 0]>>],
      scales |-> [c \in 1..nc |-> <<1>>],
      indices |-> [c \in 1..nc |-> <<leaves[l].offset + c - 1>>]]

LeftOperand == ExprValue(last.a)
RightOperand == IF last.bk = "E" THEN ExprValue(last.b) ELSE LeafAsExpr(last.b)
Result == ExprValue(last.out)

\* r holds, in every component, the entries of x followed by those of y
Followed(r, x, y) ==
  /\ Len(r) = Len(x)
  /\ Len(y) = Len(x)
  /\ \A c \in 1..Len(r) :
       /\ Len(r[c]) = Len(x[c]) + Len(y[c])
       /\ \A t \in 1..Len(r[c]) :
            r[c][t] = IF t <= Len(x[c]) THEN x[c][t] ELSE y[c][t - Len(x[c])]

Opposite(s) == [c \in 1..Len(s) |-> [t \in 1..Len(s[c]) |-> 0 - s[c][t]]]

SameArrays(x, y) ==
  x.terms = y.terms /\ x.scales = y.scales /\ x.indices = y.indices

\* the two leaves are one object, or leaves of one constructed leaf
SameRoot(la, lb) == la = lb \/ RootOf(la) = RootOf(lb)

\* the two leaves pass the identity check of + and -: one object, or two
\* leaves with one base; the base of a Function is that of its array, which
\* only the views of one array share
SharedBase(la, lb) ==
  \/ la = lb
  \/ /\ RootOf(la) = RootOf(lb)
     /\ leaves[la].tag = 2 => (leaves[la].parent # 0 /\ leaves[lb].parent # 0)

\* C1: for operands that pass the checks (a leaf operand lifted first), a + b
\* holds a's terms, indices and scales followed by b's, a - b the same with
\* b's scales negated; the number of terms adds up and the number of
\* components is that of a.
C1_Concatenation ==
  (last.op \in {"add", "sub"} /\ last.ok) =>
     /\ Followed(Result.terms, LeftOperand.terms, RightOperand.terms)
     /\ Followed(Result.indices, LeftOperand.indices, RightOperand.indices)
     /\ Followed(Result.scales, LeftOperand.scales,
                 IF last.op = "add" THEN RightOperand.scales
                 ELSE Opposite(RightOperand.scales))
     /\ ExprNumTerms(Result) = ExprNumTerms(LeftOperand) + ExprNumTerms(RightOperand)
     /\ ExprNumComponents(Result) = ExprNumComponents(LeftOperand)

\* a subtraction of a lifted leaf from a two-term Expr with different terms
C1_Witness ==
  /\ last.op = "sub" /\ last.ok /\ last.bk = "L"
  /\ ExprNumTerms(LeftOperand) = 2
  /\ LeftOperand.terms[1][1] # LeftOperand.terms[1][2]

\* C2: a + b fails, and returns no Expr, whenever the operands differ in the
\* number of components, in the argument tag or in the function space, or
\* come from two leaves that are not leaves of one constructed leaf.
C2_AddRejects ==
  last.op = "add" =>
    ((\/ ExprNumComponents(LeftOperand) # ExprNumComponents(RightOperand)
      \/ leaves[LeftOperand.basis].tag # leaves[RightOperand.basis].tag
      \/ leaves[LeftOperand.basis].space # leaves[RightOperand.basis].space
      \/ ~SameRoot(LeftOperand.basis, RightOperand.basis))
     => (~last.ok /\ last.out = 0 /\ last.kind = "error"))

\* an addition that fails for the function spaces alone
C2_Witness ==
  /\ last.op = "add" /\ ~last.ok
  /\ ExprNumComponents(LeftOperand) = ExprNumComponents(RightOperand)
  /\ leaves[LeftOperand.basis].tag = leaves[RightOperand.basis].tag
  /\ SharedBase(LeftOperand.basis, RightOperand.basis)
  /\ leaves[LeftOperand.basis].space # leaves[RightOperand.basis].space

\* C3: a - b fails whenever the operands differ in the number of components
\* or the argument tag, or their leaves are neither one object nor leaves
\* with one base; it does not ask for equal function spaces: operands that
\* agree in all this (and in the number of dimensions) are subtracted
\* whatever their spaces.
C3_SubChecks ==
  last.op = "sub" =>
    (last.ok <=>
       /\ ExprNumComponents(LeftOperand) = ExprNumComponents(RightOperand)
       /\ leaves[LeftOperand.basis].tag = leaves[RightOperand.basis].tag
       /\ SharedBase(LeftOperand.basis, RightOperand.basis)
       /\ ExprDimensions(LeftOperand) = ExprDimensions(RightOperand))

\* a subtraction of operands on two different function spaces
C3_Witness ==
  /\ last.op = "sub" /\ last.ok
  /\ leaves[LeftOperand.basis].space # leaves[RightOperand.basis].space

\* the left operand of the last operation is x + b, b the right operand
IsSumWith(x) ==
  /\ ExprNumComponents(ExprValue(x)) = ExprNumComponents(RightOperand)
  /\ leaves[exprs[x].basis].space = leaves[RightOperand.basis].space
  /\ leaves[exprs[x].basis].tag = leaves[RightOperand.basis].tag
  /\ SharedBase(exprs[x].basis, RightOperand.basis)
  /\ LeftOperand.basis = IF exprs[x].basis = RightOperand.basis
                         THEN exprs[x].basis ELSE RootOf(exprs[x].basis)
  /\ Followed(LeftOperand.terms, ExprValue(x).terms, RightOperand.terms)
  /\ Followed(LeftOperand.scales, ExprValue(x).scales, RightOperand.scales)
  /\ Followed(LeftOperand.indices, ExprValue(x).indices, RightOperand.indices)

\* C4 as stated: (a + b) - b has the terms, scales and indices of a.
C4_RoundTrip ==
  last.op = "sub" =>
    \A x \in ExprIds :
       IsSumWith(x) => (last.ok /\ SameArrays(Result, ExprValue(x)))

\* C4 as amended: (a + b) - b does not cancel.  It holds a's arrays followed
\* by b's arrays twice, the second time with the scales negated; it is built
\* unless a and b come from two different views of one Function, where the
\* subtraction fails the base check.
C4_SubAppends ==
  last.op = "sub" =>
    \A x \in ExprIds :
       IsSumWith(x) =>
         IF leaves[RightOperand.basis].tag = 2 /\ exprs[x].basis # RightOperand.basis
         THEN ~last.ok
         ELSE /\ last.ok
              /\ \A c \in 1..ExprNumComponents(Result) :
                   /\ Result.terms[c] = ExprValue(x).terms[c]
                        \o RightOperand.terms[c] \o RightOperand.terms[c]
                   /\ Result.scales[c] = ExprValue(x).scales[c]
                        \o RightOperand.scales[c] \o Opposite(RightOperand.scales)[c]
                   /\ Result.indices[c] = ExprValue(x).indices[c]
                        \o RightOperand.indices[c] \o RightOperand.indices[c]
              /\ ExprNumTerms(Result) =
                   ExprNumTerms(ExprValue(x)) + 2 * ExprNumTerms(RightOperand)

\* (a + b) - b was built from a one-term a with a derivative and a leaf b
C4_Witness ==
  /\ last.op = "sub" /\ last.ok
  /\ \E x \in ExprIds :
       /\ IsSumWith(x)
       /\ exprs[x].basis # RightOperand.basis
       /\ ExprValue(x).terms # RightOperand.terms

\* the rank the component count stands for
RankOf(e) ==
  LET nc == ExprNumComponents(e)
      nd == ExprDimensions(e)
  IN IF nd = 1 THEN nc - 1
     ELSE IF nc = 1 THEN 0
     ELSE IF nc = nd THEN 1
     ELSE IF nc = nd * nd THEN 2 ELSE -1

\* C5: -e has the terms and indices of e and every scale negated, so that
\* -(-e) has the terms, scales and indices of e.
C5_Negation ==
  last.op = "neg" =>
    /\ last.ok
    /\ Result.terms = LeftOperand.terms
    /\ Result.indices = LeftOperand.indices
    /\ Result.scales = Opposite(LeftOperand.scales)
    /\ \A x \in ExprIds :
         (/\ LeftOperand.terms = ExprValue(x).terms
          /\ LeftOperand.indices = ExprValue(x).indices
          /\ LeftOperand.scales = Opposite(ExprValue(x).scales))
         => SameArrays(Result, ExprValue(x))

\* -(-x) was built, for an Expr x that is neither -x nor the result
C5_Witness ==
  /\ last.op = "neg" /\ last.ok
  /\ \E x \in ExprIds :
       /\ x # last.a /\ x # last.out
       /\ LeftOperand.scales = Opposite(ExprValue(x).scales)
       /\ LeftOperand.terms = ExprValue(x).terms
       /\ LeftOperand.scales # ExprValue(x).scales

\* C6: e * a has the terms and indices of e; its scales are those of e times
\* a for rank 0 and for a scalar a, and times a[i] in component i for a
\* tuple a on a rank > 0 Expr, where a tuple whose length is not the number
\* of components fails.
C6_Multiplication ==
  (last.op = "mul" /\ RankOf(LeftOperand) >= 0) =>
    /\ last.ok <=> ~(RankOf(LeftOperand) > 0 /\ last.arg.tup
                     /\ Len(last.arg.v) # ExprNumComponents(LeftOperand))
    /\ last.ok =>
         /\ Result.terms = LeftOperand.terms
         /\ Result.indices = LeftOperand.indices
         /\ Len(Result.scales) = Len(LeftOperand.scales)
         /\ \A c \in 1..Len(Result.scales) :
              /\ Len(Result.scales[c]) = Len(LeftOperand.scales[c])
              /\ \A t \in 1..Len(Result.scales[c]) :
                   Result.scales[c][t] =
                     LeftOperand.scales[c][t]
                       * (IF RankOf(LeftOperand) > 0 /\ last.arg.tup
                          THEN last.arg.v[c] ELSE last.arg.v[1])

\* a rank-1 Expr whose components were scaled by the entries of a tuple
C6_Witness ==
  /\ last.op = "mul" /\ last.ok /\ last.arg.tup
  /\ RankOf(LeftOperand) = 1
  /\ LeftOperand.scales[1] = LeftOperand.scales[2]
  /\ Result.scales[1] # Result.scales[2]

\* C7: no operation changes the terms, scales or indices seen through an
\* Expr other than the receiver of an in-place operator.
C7_Isolation ==
  [][\A e \in ExprIds :
       ~(last'.op = "imul" /\ last'.a = e)
         => ExprValueIn(exprs'[e], bufs') = ExprValue(e)]_vars

\* C8: an in-place multiply, add or subtract on a leaf raises and leaves the
\* leaf unchanged.
C8_LeafInPlaceRaises ==
  [][last'.op \in {"leaf_imul", "leaf_iadd", "leaf_isub"}
       => (~last'.ok /\ leaves' = leaves /\ fdata' = fdata)]_vars

\* C9: on a composite space, leaf[i] (also of a leaf that was indexed itself)
\* is a new leaf with the tag of its parent, bound to sub-space i, at the
\* offset of the parent plus the components of the sub-spaces before i, with
\* the constructed root leaf as its base; no existing leaf changes.
C9_LeafIndexing ==
  [][(/\ last'.op = "leaf_getitem"
      /\ SpaceRank(leaves[last'.a].space) > 0
      /\ last'.b < Len(SpaceSub(leaves[last'.a].space)))
     => /\ last'.kind = "leaf"
        /\ last'.out = Len(leaves) + 1
        /\ Len(leaves') = Len(leaves) + 1
        /\ \A l \in LeafIds : leaves'[l] = leaves[l]
        /\ fdata' = Append(fdata, <<>>)
        /\ leaves'[last'.out].tag = leaves[last'.a].tag
        /\ leaves'[last'.out].space = SpaceSub(leaves[last'.a].space)[last'.b + 1]
        /\ leaves'[last'.out].offset =
             leaves[last'.a].offset
               + SumComponents(SpaceSub(leaves[last'.a].space), last'.b)
        /\ LeafBaseOf(leaves', last'.out) = RootOf(last'.a)]_vars

\* component 1 of component 1 of a leaf on the nested space: offset 1 + 1
C9_Witness ==
  /\ last.op = "leaf_getitem" /\ last.kind = "leaf"
  /\ leaves[last.a].parent # 0
  /\ leaves[last.a].offset > 0
  /\ leaves[last.out].offset > leaves[last.a].offset

\* C10: indexing a TestFunction or TrialFunction on a scalar space is an
\* error and returns no leaf.
C10_ScalarLeafIndexing ==
  (/\ last.op = "leaf_getitem"
   /\ leaves[last.a].tag \in {0, 1}
   /\ SpaceRank(leaves[last.a].space) = 0)
  => (~last.ok /\ last.kind # "leaf")

C12_TagPreserved ==
  [][(last'.ok /\ last'.op \in {"add", "sub", "neg", "mul", "getitem",
                                 "imul", "iadd", "isub"})
     => /\ exprs'[last'.out].basis # 0
        /\ leaves'[exprs'[last'.out].basis].tag = leaves[exprs[last'.a].basis].tag
        /\ last'.bk = "E" =>
             leaves'[exprs'[last'.out].basis].tag = leaves[exprs[last'.b].basis].tag
        /\ last'.bk = "L" =>
             leaves'[exprs'[last'.out].basis].tag = leaves[last'.b].tag]_vars

\* C13: expr_rank is num_components - 1 in one dimension, where three or
\* more components fail the assertion; in d >= 2 dimensions it is 0 for one
\* component, 1 for d and 2 for d*d components.  terms of shape (3,1,3) have
\* rank 1, the single component [[2,0,0],[0,2,0],[0,0,2]] has rank 0.
C13_ExprRank ==
  last.op = "expr_rank" =>
    /\ ExprDimensions(ExprValue(last.a)) = 1 =>
         IF ExprNumComponents(ExprValue(last.a)) < 3
         THEN /\ last.ok /\ last.kind = "rank"
              /\ last.out = ExprNumComponents(ExprValue(last.a)) - 1
         ELSE ~last.ok
    /\ (/\ ExprDimensions(ExprValue(last.a)) >= 2
        /\ ExprNumComponents(ExprValue(last.a)) = 1)
       => (last.ok /\ last.kind = "rank" /\ last.out = 0)
    /\ (/\ ExprDimensions(ExprValue(last.a)) >= 2
        /\ ExprNumComponents(ExprValue(last.a)) = ExprDimensions(ExprValue(last.a)))
       => (last.ok /\ last.kind = "rank" /\ last.out = 1)
    /\ (/\ ExprDimensions(ExprValue(last.a)) >= 2
        /\ ExprNumComponents(ExprValue(last.a))
             = ExprDimensions(ExprValue(last.a)) * ExprDimensions(ExprValue(last.a)))
       => (last.ok /\ last.kind = "rank" /\ last.out = 2)
    /\ ExprValue(last.a).terms = <<<<<<1, 0, 0>>>>, <<<<0, 1, 0>>>>, <<<<0, 0, 1>>>>>>
       => (last.ok /\ last.kind = "rank" /\ last.out = 1)
    /\ ExprValue(last.a).terms = <<<<<<2, 0, 0>>, <<0, 2, 0>>, <<0, 0, 2>>>>>>
       => (last.ok /\ last.kind = "rank" /\ last.out = 0)

\* the rank of grad of a scalar in three dimensions was asked for
C13_Witness ==
  /\ last.op = "expr_rank" /\ last.ok /\ last.out = 1
  /\ ExprValue(last.a).terms = <<<<<<1, 0, 0>>>>, <<<<0, 1, 0>>>>, <<<<0, 0, 1>>>>>>

\* the component count of the Expr is none of 1, d, d*d, in d >= 2 dimensions
UndefinedRank(e) ==
  /\ ExprDimensions(e) >= 2
  /\ ExprNumComponents(e) \notin {1, ExprDimensions(e), ExprDimensions(e) * ExprDimensions(e)}

\* C14: in d >= 2 dimensions, expr_rank of an Expr whose component count is
\* none of 1, d, d*d raises, and *, *= and indexing of such an Expr fail.
C14_UndefinedRankRaises ==
  [][(/\ last'.op \in {"expr_rank", "mul", "imul", "getitem"}
      /\ UndefinedRank(ExprValue(last'.a)))
     => ~last'.ok]_vars

\* the Expr has a rank or none (its expr_rank returns), and i is an index of
\* its leaf when that is composite and of its components when it has rank 1
IndexInRange(e, i) ==
  /\ e.basis # 0
  /\ SpaceRank(leaves[e.basis].space) > 0 => i < Len(SpaceSub(leaves[e.basis].space))
  /\ ~(ExprDimensions(e) = 1 /\ ExprNumComponents(e) >= 3)
  /\ RankOf(e) = 1 => i < ExprNumComponents(e)

\* C15: e[i] of a rank-1 Expr is the one-component Expr of component i; of a
\* rank-2 Expr in d dimensions it holds the components i*d .. (i+1)*d-1 in
\* order; for any other rank it raises NotImplementedError.
C15_ExprIndexing ==
  [][(/\ last'.op = "getitem"
      /\ IndexInRange(ExprValue(last'.a), last'.b))
     => /\ RankOf(ExprValue(last'.a)) = 1 =>
             /\ last'.ok
             /\ ExprValueIn(exprs'[last'.out], bufs').terms
                  = <<ExprValue(last'.a).terms[last'.b + 1]>>
             /\ ExprValueIn(exprs'[last'.out], bufs').scales
                  = <<ExprValue(last'.a).scales[last'.b + 1]>>
             /\ ExprValueIn(exprs'[last'.out], bufs').indices
                  = <<ExprValue(last'.a).indices[last'.b + 1]>>
        /\ RankOf(ExprValue(last'.a)) = 2 =>
             /\ last'.ok
             /\ RankOf(ExprValueIn(exprs'[last'.out], bufs')) = 1
             /\ \A j \in 1..ExprDimensions(ExprValue(last'.a)) :
                  /\ ExprValueIn(exprs'[last'.out], bufs').terms[j]
                       = ExprValue(last'.a).terms[last'.b * ExprDimensions(ExprValue(last'.a)) + j]
                  /\ ExprValueIn(exprs'[last'.out], bufs').scales[j]
                       = ExprValue(last'.a).scales[last'.b * ExprDimensions(ExprValue(last'.a)) + j]
                  /\ ExprValueIn(exprs'[last'.out], bufs').indices[j]
                       = ExprValue(last'.a).indices[last'.b * ExprDimensions(ExprValue(last'.a)) + j]
        /\ RankOf(ExprValue(last'.a)) \notin {1, 2} =>
             /\ ~last'.ok
             /\ last'.kind = "NotImplementedError"
             /\ UNCHANGED <<exprs, bufs>>]_vars

\* the second half of a four-component Expr in two dimensions was taken
C15_Witness ==
  /\ last.op = "getitem" /\ last.ok /\ last.b = 1
  /\ ExprNumComponents(ExprValue(last.out)) = 2
  /\ ExprValue(last.out).indices = <<<<2>>, <<3>>>>

(***************************************************************************)
(* Exact fractions n/d in lowest terms with d > 0, for the numbers the     *)
(* code holds as floats.                                                   *)
(***************************************************************************)
RECURSIVE GCD(_, _)
GCD(a, b) == IF b = 0 THEN a ELSE GCD(b, a % b)

Rat(n, d) ==
  LET s == IF d < 0 THEN -1 ELSE 1
      g == GCD(Abs(n), Abs(d))
  IN [d |-> (s * d) \div g, n |-> (s * n) \div g]

RatOf(i) == [d |-> 1, n |-> i]
RatMul(x, y) == Rat(x.n * y.n, x.d * y.d)
RatDiv(x, y) == Rat(x.n * y.d, x.d * y.n)
RatAdd(x, y) == Rat(x.n * y.d + y.n * x.d, x.d * y.d)
RatSub(x, y) == Rat(x.n * y.d - y.n * x.d, x.d * y.d)

(***************************************************************************)
(* Construction of bases.  jacobi/bases.py defines the classes of the      *)
(* Jacobi family; the factory Basis of arguments.py selects a class from a *)
(* family name and a boundary condition and calls it.  The classes of the  *)
(* other families are collaborators: their constructors are taken to       *)
(* return an object.                                                       *)
(*                                                                         *)
(* Strings are strings, lowered character by character.  A number is       *)
(* m * 10^e with one decimal digit m (m = 0 only as 0 * 10^0), which keeps *)
(* 1, 0 and a value below the tolerance 1e-12 of the factory apart.  A     *)
(* boundary condition is None, a tuple of numbers, a string, or a list of  *)
(* numbers (a value of a type the factory does not look for).              *)
(***************************************************************************)
UpperCase == <<"A", "B", "C", "D", "E", "F", "G", "H", "I", "J", "K", "L", "M",
               "N", "O", "P", "Q", "R", "S", "T", "U", "V", "W", "X", "Y", "Z">>
LowerCase == <<"a", "b", "c", "d", "e", "f", "g", "h", "i", "j", "k", "l", "m",
               "n", "o", "p", "q", "r", "s", "t", "u", "v", "w", "x", "y", "z">>

LowerChar(c) ==
  IF \E i \in 1..Len(UpperCase) : UpperCase[i] = c
  THEN LowerCase[CHOOSE i \in 1..Len(UpperCase) : UpperCase[i] = c]
  ELSE c

RECURSIVE Lower(_)
Lower(s) ==
  IF Len(s) = 0 THEN ""
  ELSE LowerChar(SubSeq(s, 1, 1)) \o Lower(SubSeq(s, 2, Len(s)))

Num(m, e) == [m |-> m, e |-> e]
Zero == Num(0, 0)
One == Num(1, 0)
Tiny == Num(1, -13)

\* abs(x) < 1e-12
AbsBelowTol(x) == x.m = 0 \/ x.e < -12

BcNone == [tup |-> <<>>, type |-> "NoneType", str |-> ""]
BcTuple(t) == [tup |-> t, type |-> "tuple", str |-> ""]
BcStr(s) == [tup |-> <<>>, type |-> "str", str |-> s]
BcList(t) == [tup |-> t, type |-> "list", str |-> ""]

\* bc in (t, s) for a tuple t and a string s: == against each member
BcIn(bc, t, s) ==
  \/ bc.type = "tuple" /\ bc.tup = t
  \/ bc.type = "str" /\ bc.str = s

NoBasis == [bc |-> BcNone, family |-> "None", cls |-> "None", N |-> 0,
            quad |-> "None", alpha |-> RatOf(0), beta |-> RatOf(0)]

Built(b) == [ok |-> TRUE, kind |-> "basis", basis |-> b]
Fails(e) == [ok |-> FALSE, kind |-> e, basis |-> NoBasis]

JacobiBaseInit(cls, N, quad, alpha, beta) ==
  [bc |-> BcNone, family |-> "jacobi", cls |-> cls, N |-> N,
   quad |-> quad, alpha |-> alpha, beta |-> beta]

\* jacobi.bases.Basis(N, quad, alpha, beta): the orthogonal basis
JacobiOrthogonalInit(N, quad, alpha, beta) ==
  Built(JacobiBaseInit("Basis", N, quad, alpha, beta))

\* ShenDirichletBasis(N, quad, bc): the bc is kept in self.bc
ShenDirichletBasisInit(N, quad, bc) ==
  IF ~BcIn(bc, <<Zero, Zero>>, "Dirichlet") THEN Fails("AssertionError")
  ELSE Built([JacobiBaseInit("ShenDirichletBasis", N, quad, RatOf(-1), RatOf(-1))
                EXCEPT !.bc = bc])

ShenBiharmonicBasisInitAnyBc(N, quad, bc) ==
  Built(JacobiBaseInit("ShenBiharmonicBasis", N, quad, RatOf(-2), RatOf(-2)))

ShenBiharmonicBasisInit(N, quad, bc) ==
  IF ~BcIn(bc, <<Zero, Zero, Zero, Zero>>, "Biharmonic")
  THEN Fails("AssertionError")
  ELSE Built(JacobiBaseInit("ShenBiharmonicBasis", N, quad, RatOf(-2), RatOf(-2)))

ShenOrder6BasisInit(N, quad) ==
  Built(JacobiBaseInit("ShenOrder6Basis", N, quad, RatOf(-3), RatOf(-3)))

\* a class of another family called with N and par
ExternalBasis(family, cls, N, quad, bc) ==
  Built([bc |-> bc, family |-> family, cls |-> cls, N |-> N,
         quad |-> quad, alpha |-> RatOf(0), beta |-> RatOf(0)])

\* par['quad'] is set only when quad is given; bc only when bc is a tuple
ParQuad(quad, default) == IF quad = "None" THEN default ELSE quad

FourierBasis(N, bc, quad, dtype) ==
  ExternalBasis("fourier", IF dtype \in {"F", "D", "G"} THEN "C2CBasis"
                           ELSE "R2CBasis", N, "None", BcNone)

ChebyshevStrings ==
  {"dirichlet", "neumann", "neumann2", "biharmonic", "upperdirichlet",
   "bipolar", "dirichletneumann"}

ChebyshevClass(s) ==
  CASE s = "dirichlet" -> "ShenDirichletBasis"
    [] s = "neumann" -> "ShenNeumannBasis"
    [] s = "neumann2" -> "SecondNeumannBasis"
    [] s = "biharmonic" -> "ShenBiharmonicBasis"
    [] s = "upperdirichlet" -> "UpperDirichletBasis"
    [] s = "bipolar" -> "ShenBiPolarBasis"
    [] s = "dirichletneumann" -> "DirichletNeumannBasis"

ChebyshevBasis(N, bc, quad) ==
  IF quad # "None" /\ quad \notin {"GC", "GL"} THEN Fails("AssertionError")
  ELSE IF bc.type = "NoneType"
  THEN ExternalBasis("chebyshev", "Basis", N, quad, BcNone)
  ELSE IF bc.type = "tuple"
  THEN IF Len(bc.tup) \notin {2, 4} THEN Fails("AssertionError")
       ELSE ExternalBasis("chebyshev",
                          IF Len(bc.tup) = 2 THEN "ShenDirichletBasis"
                          ELSE "ShenBiharmonicBasis", N, quad, bc)
  ELSE IF bc.type = "str"
  THEN IF Lower(bc.str) \in ChebyshevStrings
       THEN ExternalBasis("chebyshev", ChebyshevClass(Lower(bc.str)), N, quad,
                          BcNone)
       ELSE Fails("UnboundLocalError")
  ELSE Fails("NotImplementedError")

LegendreStrings ==
  {"dirichlet", "neumann", "biharmonic", "upperdirichlet", "bipolar",
   "bipolar0", "dirichletneumann", "neumanndirichlet"}

LegendreClass(s) ==
  CASE s = "dirichlet" -> "ShenDirichletBasis"
    [] s = "neumann" -> "ShenNeumannBasis"
    [] s = "biharmonic" -> "ShenBiharmonicBasis"
    [] s = "upperdirichlet" -> "UpperDirichletBasis"
    [] s = "bipolar" -> "ShenBiPolarBasis"
    [] s = "bipolar0" -> "ShenBiPolar0Basis"
    [] s = "dirichletneumann" -> "DirichletNeumannBasis"
    [] s = "neumanndirichlet" -> "NeumannDirichletBasis"

\* no else after the isinstance tests: B stays unbound for any other type
LegendreBasis(N, bc, quad) ==
  IF quad # "None" /\ quad \notin {"LG", "GL"} THEN Fails("AssertionError")
  ELSE IF bc.type = "NoneType"
  THEN ExternalBasis("legendre", "Basis", N, quad, BcNone)
  ELSE IF bc.type = "tuple"
  THEN IF Len(bc.tup) \notin {2, 4} THEN Fails("AssertionError")
       ELSE ExternalBasis("legendre",
                          IF Len(bc.tup) = 2 THEN "ShenDirichletBasis"
                          ELSE "ShenBiharmonicBasis", N, quad, bc)
  ELSE IF bc.type = "str" /\ Lower(bc.str) \in LegendreStrings
  THEN ExternalBasis("legendre", LegendreClass(Lower(bc.str)), N, quad, BcNone)
  ELSE Fails("UnboundLocalError")

LaguerreBasis(N, bc, quad) ==
  IF quad # "None" /\ quad \notin {"LG", "GR"} THEN Fails("AssertionError")
  ELSE IF bc.type = "NoneType"
  THEN ExternalBasis("laguerre", "Basis", N, quad, BcNone)
  ELSE IF bc.type = "tuple"
  THEN IF Len(bc.tup) # 2 THEN Fails("AssertionError")
       ELSE ExternalBasis("laguerre", "ShenDirichletBasis", N, quad, bc)
  ELSE IF bc.type = "str"
  THEN IF Lower(bc.str) = "dirichlet"
       THEN ExternalBasis("laguerre", "ShenDirichletBasis", N, quad, BcNone)
       ELSE Fails("UnboundLocalError")
  ELSE Fails("NotImplementedError")

HermiteBasis(N, bc, quad) ==
  IF quad # "None" /\ quad \notin {"HG"} THEN Fails("AssertionError")
  ELSE IF bc.type = "tuple"
  THEN IF Len(bc.tup) # 2 THEN Fails("AssertionError")
       ELSE ExternalBasis("hermite", "Basis", N, quad, bc)
  ELSE IF bc.type = "str"
  THEN IF Lower(bc.str) # "dirichlet" THEN Fails("AssertionError")
       ELSE ExternalBasis("hermite", "Basis", N, quad, BcNone)
  ELSE IF bc.type # "NoneType" THEN Fails("AssertionError")
  ELSE ExternalBasis("hermite", "Basis", N, quad, BcNone)

\* the branch of the factory for family 'jacobi'; a class called without
\* quad, alpha, beta or bc takes the defaults of its own signature
JacobiBasis(N, bc, quad) ==
  IF quad # "None" /\ quad \notin {"JG"} THEN Fails("AssertionError")
  ELSE IF bc.type = "NoneType"
  THEN JacobiOrthogonalInit(N, ParQuad(quad, "JG"), Rat(-1, 2), Rat(-1, 2))
  ELSE IF bc.type = "tuple"
  THEN IF Len(bc.tup) \notin {2, 4} THEN Fails("AssertionError")
       ELSE IF Len(bc.tup) = 2
       THEN ShenDirichletBasisInit(N, ParQuad(quad, "JG"), bc)
       ELSE IF ~\A i \in 1..Len(bc.tup) : AbsBelowTol(bc.tup[i])
       THEN Fails("AssertionError")
       ELSE ShenBiharmonicBasisInit(N, ParQuad(quad, "JG"), bc)
  ELSE IF bc.type = "str"
  THEN IF Lower(bc.str) = "dirichlet"
       THEN ShenDirichletBasisInit(N, ParQuad(quad, "JG"),
                                   BcTuple(<<Zero, Zero>>))
       ELSE IF Lower(bc.str) = "biharmonic"
       THEN ShenBiharmonicBasisInit(N, ParQuad(quad, "JG"),
                                    BcTuple(<<Zero, Zero, Zero, Zero>>))
       ELSE IF Lower(bc.str) = "6th order"
       THEN ShenOrder6BasisInit(N, ParQuad(quad, "JG"))
       ELSE Fails("NotImplementedError")
  ELSE Fails("UnboundLocalError")

\* Basis(N, family, bc, dtype, quad) of arguments.py
BasisFactory(N, family, bc, quad, dtype) ==
  CASE Lower(family) \in {"fourier", "f"} -> FourierBasis(N, bc, quad, dtype)
    [] Lower(family) \in {"chebyshev", "c"} -> ChebyshevBasis(N, bc, quad)
    [] Lower(family) \in {"legendre", "l"} -> LegendreBasis(N, bc, quad)
    [] Lower(family) \in {"laguerre", "la"} -> LaguerreBasis(N, bc, quad)
    [] Lower(family) \in {"hermite", "h"} -> HermiteBasis(N, bc, quad)
    [] Lower(family) \in {"jacobi", "j"} -> JacobiBasis(N, bc, quad)
    [] OTHER -> Fails("NotImplementedError")

(***************************************************************************)
(* The calls.  `last` records the call and its outcome: the object         *)
(* returned, or the exception raised.                                      *)
(***************************************************************************)
MaxArity == 4

Call(op, family, N, bc, quad, dtype, r) ==
  [op |-> op, ok |-> r.ok, kind |-> r.kind, out |-> r.basis, bc |-> bc,
   family |-> family, N |-> N, quad |-> quad, dtype |-> dtype]

BcEntries == {Zero, One, Tiny}
BcTuples == UNION {[1..n -> BcEntries] : n \in 0..MaxArity}
BcStrings == {"Dirichlet", "dirichlet", "Biharmonic", "BIHARMONIC",
              "6th order", "Neumann", "neumann2", "bipolar0", "periodic"}
BcValues ==
  {BcNone, BcList(<<Zero, Zero>>)} \cup {BcTuple(t) : t \in BcTuples}
    \cup {BcStr(s) : s \in BcStrings}
Families == {"Fourier", "F", "C", "chebyshev", "L", "Legendre", "La",
             "laguerre", "H", "hermite", "J", "jacobi", "Jacobi", "ultra", "B"}
Quads == {"None", "JG", "GC", "LG"}
Dtypes == {"d", "D"}
Sizes == {6, 8}

\* the arguments of a call are drawn in the initial state, the call is made
\* once
NewShenDirichletBasis ==
  /\ last.op = "init"
  /\ last' = Call("ShenDirichletBasis", "-", last.N, last.bc, "JG", "d",
                  ShenDirichletBasisInit(last.N, "JG", last.bc))
  /\ UNCHANGED <<leaves, fdata, exprs, bufs>>

NewShenBiharmonicBasis ==
  /\ last.op = "init"
  /\ last' = Call("ShenBiharmonicBasis", "-", last.N, last.bc, "JG", "d",
                  ShenBiharmonicBasisInit(last.N, "JG", last.bc))
  /\ UNCHANGED <<leaves, fdata, exprs, bufs>>

NewBasis ==
  /\ last.op = "init"
  /\ last' = Call("Basis", last.family, last.N, last.bc, last.quad,
                  last.dtype,
                  BasisFactory(last.N, last.family, last.bc, last.quad,
                               last.dtype))
  /\ UNCHANGED <<leaves, fdata, exprs, bufs>>

InitBasis ==
  /\ leaves = <<>>
  /\ fdata = <<>>
  /\ exprs = <<>>
  /\ bufs = <<>>
  /\ \E N \in Sizes, family \in Families, bc \in BcValues, quad \in Quads,
        dtype \in Dtypes :
       last = Call("init", family, N, bc, quad, dtype, Fails("none"))

NextBasis ==
  \/ NewShenDirichletBasis
  \/ NewShenBiharmonicBasis
  \/ NewBasis

SpecBasis == InitBasis /\ [][NextBasis]_vars

(***************************************************************************)
(* C16: a Jacobi Dirichlet basis is constructed only for bc = (0, 0) or    *)
(* 'Dirichlet' and a Jacobi Biharmonic basis only for bc = (0, 0, 0, 0) or *)
(* 'Biharmonic'; every other boundary tuple, with a non-zero entry or of   *)
(* another arity, ends in an AssertionError, in a direct call of the class *)
(* and in a call of the factory Basis with family 'jacobi'.                *)
(***************************************************************************)
C16_JacobiBoundaryCondition ==
  /\ last.op = "ShenDirichletBasis" =>
       /\ last.ok => last.bc \in {BcTuple(<<Zero, Zero>>), BcStr("Dirichlet")}
       /\ (last.bc.type = "tuple" /\ last.bc.tup # <<Zero, Zero>>) =>
            ~last.ok /\ last.kind = "AssertionError"
  /\ last.op = "ShenBiharmonicBasis" =>
       /\ last.ok => last.bc \in {BcTuple(<<Zero, Zero, Zero, Zero>>),
                                  BcStr("Biharmonic")}
       /\ (last.bc.type = "tuple" /\ last.bc.tup # <<Zero, Zero, Zero, Zero>>) =>
            ~last.ok /\ last.kind = "AssertionError"
  /\ (last.op = "Basis" /\ Lower(last.family) \in {"jacobi", "j"}
        /\ last.bc.type = "tuple") =>
       /\ (last.ok /\ last.out.cls = "ShenDirichletBasis") =>
            last.bc.tup = <<Zero, Zero>>
       /\ (last.ok /\ last.out.cls = "ShenBiharmonicBasis") =>
            last.bc.tup = <<Zero, Zero, Zero, Zero>>
       /\ last.bc.tup \notin {<<Zero, Zero>>, <<Zero, Zero, Zero, Zero>>} =>
            ~last.ok /\ last.kind = "AssertionError"

\* the factory let a tuple of four entries below its tolerance through and
\* the class refused it
C16_Witness ==
  /\ last.op = "Basis" /\ last.family = "Jacobi" /\ last.quad = "JG"
  /\ last.bc = BcTuple(<<Zero, Tiny, Zero, Zero>>)
  /\ ~last.ok /\ last.kind = "AssertionError"

\* the bc strings the factory names for a family, by the lowered family name
FamilyStrings(f) ==
  CASE f \in {"chebyshev", "c"} -> ChebyshevStrings
    [] f \in {"legendre", "l"} -> LegendreStrings
    [] f \in {"laguerre", "la"} -> {"dirichlet"}
    [] f \in {"hermite", "h"} -> {"dirichlet"}
    [] f \in {"jacobi", "j"} -> {"dirichlet", "biharmonic", "6th order"}
    [] OTHER -> {}

SupportedFamilies ==
  {"fourier", "f", "chebyshev", "c", "legendre", "l", "laguerre", "la",
   "hermite", "h", "jacobi", "j"}

\* a family that looks at bc, with a bc string it does not name or a bc that
\* is neither None, a tuple nor a string
UnsupportedBc(family, bc) ==
  /\ Lower(family) \in SupportedFamilies \ {"fourier", "f"}
  /\ \/ bc.type = "str" /\ Lower(bc.str) \notin FamilyStrings(Lower(family))
     \/ bc.type \notin {"NoneType", "tuple", "str"}

(***************************************************************************)
(* C20: a call of the factory Basis with a family name outside the         *)
(* supported set, or with a supported family and a boundary condition it   *)
(* does not support (a string it does not name, a value of another type),  *)
(* raises NotImplementedError and returns no basis.  Stated for calls that *)
(* leave quad at its default, so that no assertion on quad comes first.    *)
(***************************************************************************)
C20_NotImplemented ==
  (/\ last.op = "Basis"
   /\ last.quad = "None"
   /\ \/ Lower(last.family) \notin SupportedFamilies
      \/ UnsupportedBc(last.family, last.bc))
  => ~last.ok /\ last.kind = "NotImplementedError" /\ last.out = NoBasis

(***************************************************************************)
(* Evaluation and change of basis in the Jacobi family (jacobi/bases.py).  *)
(* A basis of size N with c boundary constraints has the free modes        *)
(* slice() = [0, N - c).  In the specification of this section `leaves`    *)
(* holds one Function over a one-dimensional Jacobi basis (its space is    *)
(* the basis object), `fdata` its coefficients and `bufs` the array the    *)
(* last call returned or wrote.                                            *)
(*                                                                         *)
(* Arrays are one-dimensional (the basis is the only axis, so self.sl[s]   *)
(* is s); a matrix is a sequence of rows.  The code computes in floating   *)
(* point; the model computes the same expressions, in the same order, in   *)
(* exact rationals n/d in lowest terms, that is up to rounding.            *)
(***************************************************************************)
\* np.zeros(n), np.zeros_like
Zeros(n) == [j \in 1..n |-> RatOf(0)]

\* the positions (from 1) selected by slice(start, stop) in an array of
\* length n: negative bounds count from the end, bounds are clipped
SliceBound(i, n) ==
  IF i < 0 THEN (IF i + n < 0 THEN 0 ELSE i + n) ELSE (IF i > n THEN n ELSE i)

Slice(start, stop, n) ==
  LET lo == SliceBound(start, n)
      hi == SliceBound(stop, n)
  IN [j \in 1..(IF hi > lo THEN hi - lo ELSE 0) |-> lo + j]

\* slice(start, None)
SliceFrom(start, n) ==
  LET lo == SliceBound(start, n) IN [j \in 1..(n - lo) |-> lo + j]

Selected(s) == {s[j] : j \in 1..Len(s)}
PositionIn(s, p) == CHOOSE j \in 1..Len(s) : s[j] = p

\* a[s], a[s] = z, a[s] += z, a[s] -= z for arrays of matching length
Take(a, s) == [j \in 1..Len(s) |-> a[s[j]]]

Assign(a, s, z) ==
  [p \in 1..Len(a) |-> IF p \in Selected(s) THEN z[PositionIn(s, p)] ELSE a[p]]

AddTo(a, s, z) ==
  [p \in 1..Len(a) |-> IF p \in Selected(s)
                       THEN RatAdd(a[p], z[PositionIn(s, p)]) ELSE a[p]]

SubtractFrom(a, s, z) ==
  [p \in 1..Len(a) |-> IF p \in Selected(s)
                       THEN RatSub(a[p], z[PositionIn(s, p)]) ELSE a[p]]

\* number of boundary constraints of a class: N - slice().stop
Constraints(cls) ==
  CASE cls = "ShenDirichletBasis" -> 2
    [] cls = "ShenBiharmonicBasis" -> 4
    [] cls = "ShenOrder6Basis" -> 6
    [] OTHER -> 0

\* wavenumbers(): the indices of slice()
Wavenumbers(b) == [j \in 1..(b.N - Constraints(b.cls)) |-> j - 1]

\* range(n)
Range(n) == [j \in 1..(IF n > 0 THEN n ELSE 0) |-> j]

\* V = np.zeros((pts, N)) with the columns s set to the values of the basis
\* functions, which come from scipy and sympy: v stands for them
FillColumns(pts, N, s, v) ==
  [p \in 1..pts |-> [j \in 1..N |-> IF j \in Selected(s) THEN v ELSE 0]]

EvaluateBasisAllEveryColumn(b, pts, v) == FillColumns(pts, b.N, Range(b.N), v)

\* evaluate_basis_all of the three classes
EvaluateBasisAll(b, pts, v) ==
  CASE b.cls = "ShenDirichletBasis" ->
         FillColumns(pts, b.N, Range(b.N - 2), v)
    [] b.cls = "ShenBiharmonicBasis" ->
         FillColumns(pts, b.N, Slice(0, -4, b.N), v)
    [] b.cls = "ShenOrder6Basis" ->
         FillColumns(pts, b.N, Slice(0, -6, b.N), v)

\* evaluate_basis_derivative_all of the three classes: a loop over
\* range(N - c) in each
EvaluateBasisDerivativeAll(b, pts, k, v) ==
  CASE b.cls = "ShenDirichletBasis" ->
         FillColumns(pts, b.N, Range(b.N - 2), v)
    [] b.cls = "ShenBiharmonicBasis" ->
         FillColumns(pts, b.N, Range(b.N - 4), v)
    [] b.cls = "ShenOrder6Basis" ->
         FillColumns(pts, b.N, Range(b.N - 6), v)

\* vandermonde_scalar_product: SpectralBase fills output_array (w stands for
\* what it writes), then the last c entries are set to zero
VandermondeScalarProduct(b, w) ==
  LET out == [j \in 1..b.N |-> w]
  IN CASE b.cls = "ShenDirichletBasis" ->
            Assign(out, SliceFrom(-2, b.N), [j \in 1..b.N |-> 0])
       [] b.cls = "ShenBiharmonicBasis" ->
            Assign(out, SliceFrom(-4, b.N), [j \in 1..b.N |-> 0])
       [] b.cls = "ShenOrder6Basis" ->
            Assign(out, SliceFrom(-6, b.N), [j \in 1..b.N |-> 0])

\* ShenDirichletBasis.to_ortho(input_array) with output_array = None
DirichletToOrthoAdds(b, in) ==
  LET k == Wavenumbers(b)
      s0 == Slice(0, -2, Len(in))
      s1 == SliceFrom(2, Len(in))
      x == Take(in, s0)
      z == [j \in 1..Len(x) |->
              RatDiv(RatMul(RatMul(RatOf(x[j]), RatOf(2)), RatOf(k[j] + 1)),
                     RatOf(2 * k[j] + 3))]
  IN AddTo(Assign(Zeros(Len(in)), s0, z), s1, z)

DirichletToOrtho(b, in) ==
  LET k == Wavenumbers(b)
      s0 == Slice(0, -2, Len(in))
      s1 == SliceFrom(2, Len(in))
      x == Take(in, s0)
      z == [j \in 1..Len(x) |->
              RatDiv(RatMul(RatMul(RatOf(x[j]), RatOf(2)), RatOf(k[j] + 1)),
                     RatOf(2 * k[j] + 3))]
  IN SubtractFrom(Assign(Zeros(Len(in)), s0, z), s1, z)

BiharmonicFactor0(k) ==
  RatDiv(RatDiv(RatOf(4 * (k + 2) * (k + 1)), RatOf(2 * k + 5)),
         RatOf(2 * k + 3))
BiharmonicFactor1(k) == RatDiv(RatOf(-2 * (2 * k + 5)), RatOf(2 * k + 7))
BiharmonicFactor2(k) == RatDiv(RatOf(2 * k + 3), RatOf(2 * k + 7))

BiharmonicToOrthoShifted(b, in) ==
  LET k == Wavenumbers(b)
      s0 == Slice(0, -4, Len(in))
      x == Take(in, s0)
      z == [j \in 1..Len(x) |-> RatMul(BiharmonicFactor0(k[j]), RatOf(x[j]))]
      z1 == [j \in 1..Len(z) |-> RatMul(z[j], BiharmonicFactor1(k[j]))]
      z2 == [j \in 1..Len(z) |-> RatMul(z[j], BiharmonicFactor2(k[j]))]
  IN AddTo(AddTo(Assign(Zeros(Len(in)), s0, z), Slice(1, -3, Len(in)), z1),
           SliceFrom(4, Len(in)), z2)

\* ShenBiharmonicBasis.to_ortho(input_array) with output_array = None
BiharmonicToOrtho(b, in) ==
  LET k == Wavenumbers(b)
      s0 == Slice(0, -4, Len(in))
      x == Take(in, s0)
      z == [j \in 1..Len(x) |-> RatMul(BiharmonicFactor0(k[j]), RatOf(x[j]))]
      z1 == [j \in 1..Len(z) |-> RatMul(z[j], BiharmonicFactor1(k[j]))]
      z2 == [j \in 1..Len(z) |-> RatMul(z[j], BiharmonicFactor2(k[j]))]
  IN AddTo(AddTo(Assign(Zeros(Len(in)), s0, z), Slice(2, -2, Len(in)), z1),
           SliceFrom(4, Len(in)), z2)

\* ShenDirichletBasis.to_ortho(input_array, output_array) with the array of
\* the caller, both of rationals: the slots of s0 are assigned, those of s1
\* are decremented
DirichletToOrthoInto(b, in, out) ==
  LET k == Wavenumbers(b)
      s0 == Slice(0, -2, Len(in))
      s1 == SliceFrom(2, Len(in))
      x == Take(in, s0)
      z == [j \in 1..Len(x) |->
              RatDiv(RatMul(RatMul(x[j], RatOf(2)), RatOf(k[j] + 1)),
                     RatOf(2 * k[j] + 3))]
  IN SubtractFrom(Assign(out, s0, z), s1, z)

\* ShenBiharmonicBasis.to_ortho(input_array, output_array) with the array of
\* the caller
BiharmonicToOrthoInto(b, in, out) ==
  LET k == Wavenumbers(b)
      s0 == Slice(0, -4, Len(in))
      x == Take(in, s0)
      z == [j \in 1..Len(x) |-> RatMul(BiharmonicFactor0(k[j]), x[j])]
      z1 == [j \in 1..Len(z) |-> RatMul(z[j], BiharmonicFactor1(k[j]))]
      z2 == [j \in 1..Len(z) |-> RatMul(z[j], BiharmonicFactor2(k[j]))]
  IN AddTo(AddTo(Assign(out, s0, z), Slice(2, -2, Len(in)), z1),
           SliceFrom(4, Len(in)), z2)

(***************************************************************************)
(* The calls on one basis.  The basis and the coefficients are drawn in    *)
(* the initial state.                                                      *)
(***************************************************************************)
MaxFree == 5
MaxPoints == 2
MaxNonzero == 3

JacobiClasses == {"ShenDirichletBasis", "ShenBiharmonicBasis", "ShenOrder6Basis"}
EvalValues == {1, -1}
Orders == {0, 1}
InScales == {1, -3}

\* coefficient arrays of length N with at most MaxNonzero entries set
Coefficients(N) ==
  {[j \in 1..N |-> s * b[j]] :
     s \in InScales,
     b \in {c \in [1..N -> {0, 1}] :
              Cardinality({j \in 1..N : c[j] = 1}) <= MaxNonzero}}

NewJacobi(cls, N) ==
  CASE cls = "ShenDirichletBasis" ->
         ShenDirichletBasisInit(N, "JG", BcTuple(<<Zero, Zero>>)).basis
    [] cls = "ShenBiharmonicBasis" ->
         ShenBiharmonicBasisInit(N, "JG", BcTuple(<<Zero, Zero, Zero, Zero>>)).basis
    [] cls = "ShenOrder6Basis" -> ShenOrder6BasisInit(N, "JG").basis

JCall(op, pts, k, v) == [op |-> op, v |-> v, k |-> k, pts |-> pts]

TheBasis == leaves[1].space

EvaluateAll(pts, v) ==
  /\ bufs' = <<EvaluateBasisAll(TheBasis, pts, v)>>
  /\ last' = JCall("evaluate_basis_all", pts, 0, v)
  /\ UNCHANGED <<leaves, fdata, exprs>>

EvaluateDerivativeAll(pts, k, v) ==
  /\ bufs' = <<EvaluateBasisDerivativeAll(TheBasis, pts, k, v)>>
  /\ last' = JCall("evaluate_basis_derivative_all", pts, k, v)
  /\ UNCHANGED <<leaves, fdata, exprs>>

ScalarProduct(w) ==
  /\ bufs' = <<VandermondeScalarProduct(TheBasis, w)>>
  /\ last' = JCall("vandermonde_scalar_product", 0, 0, w)
  /\ UNCHANGED <<leaves, fdata, exprs>>

\* the assertion of the Dirichlet class on alpha and beta holds for every
\* basis its constructor returns
ToOrtho ==
  /\ TheBasis.cls \in {"ShenDirichletBasis", "ShenBiharmonicBasis"}
  /\ TheBasis.cls = "ShenDirichletBasis" =>
       TheBasis.alpha = RatOf(-1) /\ TheBasis.beta = RatOf(-1)
  /\ bufs' = <<IF TheBasis.cls = "ShenDirichletBasis"
               THEN DirichletToOrtho(TheBasis, fdata[1])
               ELSE BiharmonicToOrtho(TheBasis, fdata[1])>>
  /\ last' = JCall("to_ortho", 0, 0, 0)
  /\ UNCHANGED <<leaves, fdata, exprs>>

\* to_ortho with an output_array that holds p in every slot before the call
ToOrthoInto(p) ==
  /\ TheBasis.cls \in {"ShenDirichletBasis", "ShenBiharmonicBasis"}
  /\ TheBasis.cls = "ShenDirichletBasis" =>
       TheBasis.alpha = RatOf(-1) /\ TheBasis.beta = RatOf(-1)
  /\ LET out == [j \in 1..TheBasis.N |-> RatOf(p)]
         in == [j \in 1..TheBasis.N |-> RatOf(fdata[1][j])]
     IN bufs' = <<IF TheBasis.cls = "ShenDirichletBasis"
                  THEN DirichletToOrthoInto(TheBasis, in, out)
                  ELSE BiharmonicToOrthoInto(TheBasis, in, out)>>
  /\ last' = JCall("to_ortho_out", 0, 0, p)
  /\ UNCHANGED <<leaves, fdata, exprs>>

InitJacobi ==
  /\ \E cls \in JacobiClasses, free \in 0..MaxFree :
       /\ leaves = <<[tag |-> 2, space |-> NewJacobi(cls, Constraints(cls) + free)]>>
       /\ fdata \in {<<in>> : in \in Coefficients(Constraints(cls) + free)}
  /\ exprs = <<>>
  /\ bufs = <<>>
  /\ last = JCall("init", 0, 0, 0)

NextJacobi ==
  \/ \E pts \in 1..MaxPoints, v \in EvalValues : EvaluateAll(pts, v)
  \/ \E pts \in 1..MaxPoints, k \in Orders, v \in EvalValues :
        EvaluateDerivativeAll(pts, k, v)
  \/ \E w \in EvalValues : ScalarProduct(w)
  \/ ToOrtho
  \/ \E p \in EvalValues : ToOrthoInto(p)

SpecJacobi == InitJacobi /\ [][NextJacobi]_vars

\* the entries of an array that the last c, for a basis of c constraints,
\* positions hold
Trailing(b, row) ==
  {row[j] : j \in (Len(row) - Constraints(b.cls) + 1)..Len(row)}

(***************************************************************************)
(* C17: for the Dirichlet, Biharmonic and 6th-order bases of size N, with  *)
(* c = 2, 4, 6 constraints, evaluate_basis_all and                         *)
(* evaluate_basis_derivative_all return a matrix of N columns whose last c *)
(* columns are zero, and vandermonde_scalar_product leaves the last c      *)
(* coefficients of its output equal to zero.                               *)
(***************************************************************************)
C17_TrailingSlotsZero ==
  /\ last.op \in {"evaluate_basis_all", "evaluate_basis_derivative_all"} =>
       /\ Len(bufs[1]) = last.pts
       /\ \A p \in 1..Len(bufs[1]) :
            /\ Len(bufs[1][p]) = TheBasis.N
            /\ Trailing(TheBasis, bufs[1][p]) = {0}
  /\ last.op = "vandermonde_scalar_product" =>
       /\ Len(bufs[1]) = TheBasis.N
       /\ Trailing(TheBasis, bufs[1]) = {0}

\* a Biharmonic basis of size 6 was evaluated at two points: two columns of
\* values, four of zeros
C17_Witness ==
  /\ last.op = "evaluate_basis_all"
  /\ TheBasis.cls = "ShenBiharmonicBasis" /\ TheBasis.N = 6
  /\ bufs[1] = <<<<-1, -1, 0, 0, 0, 0>>, <<-1, -1, 0, 0, 0, 0>>>>

\* c_j * in[j] with c_j = 2(j+1)/(2j+3) for a free mode j (from 0) of a
\* Dirichlet basis of size N, zero for any other j
DirichletTerm(in, j) ==
  IF j >= 0 /\ j <= Len(in) - 3
  THEN Rat(2 * (j + 1) * in[j + 1], 2 * j + 3) ELSE RatOf(0)

(***************************************************************************)
(* C18: Dirichlet to_ortho without an output array returns, for an input   *)
(* of length N, out[j] = c_j*in[j] - c_(j-2)*in[j-2] with                  *)
(* c_k = 2(k+1)/(2k+3), the terms with k outside 0..N-3 left out: mode k   *)
(* receives +c_k*in[k], mode k+2 receives -c_k*in[k], and in[N-2], in[N-1] *)
(* contribute nothing.                                                     *)
(***************************************************************************)
C18_DirichletToOrtho ==
  (last.op = "to_ortho" /\ TheBasis.cls = "ShenDirichletBasis") =>
    /\ Len(bufs[1]) = Len(fdata[1])
    /\ \A j \in 0..(Len(fdata[1]) - 1) :
         bufs[1][j + 1] = RatSub(DirichletTerm(fdata[1], j),
                                 DirichletTerm(fdata[1], j - 2))

\* size 5: output mode 2 holds c_2*in[2] - c_0*in[0] = 6/7 - 2/3 = 4/21
C18_Witness ==
  /\ last.op = "to_ortho" /\ TheBasis.cls = "ShenDirichletBasis"
  /\ fdata[1] = <<1, 0, 1, 0, 0>>
  /\ bufs[1][3] = [d |-> 21, n |-> 4]
  /\ bufs[1][5] = [d |-> 7, n |-> -6]

\* the contribution of input mode k (from 0) of a Biharmonic basis of size N
\* to the output modes k (m = 0), k + 2 (m = 1) and k + 4 (m = 2); zero for a
\* k outside 0..N-5
BiharmonicTerm(in, k, m) ==
  IF k < 0 \/ k > Len(in) - 5 THEN RatOf(0)
  ELSE LET f0 == Rat(4 * (k + 2) * (k + 1), (2 * k + 5) * (2 * k + 3))
       IN CASE m = 0 -> RatMul(f0, RatOf(in[k + 1]))
            [] m = 1 -> RatMul(RatMul(f0, Rat(-2 * (2 * k + 5), 2 * k + 7)),
                               RatOf(in[k + 1]))
            [] m = 2 -> RatMul(RatMul(f0, Rat(2 * k + 3, 2 * k + 7)),
                               RatOf(in[k + 1]))

(***************************************************************************)
(* C19: Biharmonic to_ortho without an output array: input mode k in       *)
(* 0..N-5 contributes f0(k)*in[k] to output mode k,                        *)
(* f0(k)*(-2(2k+5)/(2k+7))*in[k] to mode k+2 and                           *)
(* f0(k)*((2k+3)/(2k+7))*in[k] to mode k+4, with                           *)
(* f0(k) = 4(k+2)(k+1)/((2k+5)(2k+3)); the output is the sum of these      *)
(* contributions and in[N-4..N-1] contribute nothing.                      *)
(***************************************************************************)
C19_BiharmonicToOrtho ==
  (last.op = "to_ortho" /\ TheBasis.cls = "ShenBiharmonicBasis") =>
    /\ Len(bufs[1]) = Len(fdata[1])
    /\ \A j \in 0..(Len(fdata[1]) - 1) :
         bufs[1][j + 1] =
           RatAdd(RatAdd(BiharmonicTerm(fdata[1], j, 0),
                         BiharmonicTerm(fdata[1], j - 2, 1)),
                  BiharmonicTerm(fdata[1], j - 4, 2))

\* size 9: output mode 4 receives from the input modes 4, 2 and 0
\* 120/143 - 96/77 + 8/35 = -128/715
C19_Witness ==
  /\ last.op = "to_ortho" /\ TheBasis.cls = "ShenBiharmonicBasis"
  /\ fdata[1] = <<1, 0, 1, 0, 1, 0, 0, 0, 0>>
  /\ bufs[1][5] = [d |-> 715, n |-> -128]

\* an out-of-place result x and the fields y an in-place operator leaves in
\* its receiver: both raise, or both return the same Expr
SameOutcome(x, y) ==
  /\ x.ok = y.ok
  /\ x.ok => /\ x.basis = y.basis
             /\ x.terms = y.terms
             /\ x.scales = y.scales
             /\ x.indices = y.indices

(***************************************************************************)
(* C28: for every Expr e and operand a, e += a, e -= a and e *= a succeed  *)
(* exactly when e + a, e - a and e * a succeed, and leave e with the terms,*)
(* scales, indices and leaf of the Expr the out-of-place operator returns. *)
(***************************************************************************)
C28_InPlaceAgrees ==
  \A e \in ExprIds :
    /\ \A bk \in OperandKinds : \A a \in OperandIds(bk) :
         /\ SameOutcome(ExprAdd(leaves, ExprValue(e), Operand(bk, a)),
                        ExprIAdd(leaves, ExprValue(e), Operand(bk, a)))
         /\ SameOutcome(ExprSub(leaves, ExprValue(e), Operand(bk, a)),
                        ExprISub(leaves, ExprValue(e), Operand(bk, a)))
    /\ \A m \in SignMultipliers :
         /\ ExprMul(leaves, ExprValue(e), m).ok = ExprIMul(ExprValue(e), m).ok
         /\ ExprMul(leaves, ExprValue(e), m).ok =>
              ExprMul(leaves, ExprValue(e), m).scales
                = ExprIMul(ExprValue(e), m).scales

(***************************************************************************)
(* Methods of one basis of the Jacobi family: get_refined, plan,           *)
(* mpmath_points_and_weights and the derivatives of the orthogonal basis.  *)
(* In the specification of this section `leaves` holds one Function over   *)
(* the basis, `exprs` the module-level names has_quadpy and mode of        *)
(* bases.py, set when the module is imported, and `bufs` the transform     *)
(* plan of the basis.                                                      *)
(***************************************************************************)
\* the keyword arguments the __init__ of a class takes besides N, quad,
\* domain, dtype, padding_factor, dealias_direct and coordinates
ExtraKeywords(cls) ==
  CASE cls = "Basis" -> {"alpha", "beta"}
    [] cls = "ShenDirichletBasis" -> {"bc"}
    [] cls = "ShenBiharmonicBasis" -> {"bc"}
    [] cls = "ShenOrder6Basis" -> {}

\* self.__class__(N, quad=self.quad, ..., **extra) with the values of b: an
\* unexpected keyword argument is a TypeError
NewInstance(b, N, extra) ==
  IF ~(extra \subseteq ExtraKeywords(b.cls)) THEN Fails("TypeError")
  ELSE CASE b.cls = "Basis" ->
              JacobiOrthogonalInit(N, b.quad,
                                   IF "alpha" \in extra THEN b.alpha ELSE Rat(-1, 2),
                                   IF "beta" \in extra THEN b.beta ELSE Rat(-1, 2))
         [] b.cls = "ShenDirichletBasis" ->
              ShenDirichletBasisInit(N, b.quad,
                                     IF "bc" \in extra THEN b.bc
                                     ELSE BcTuple(<<Zero, Zero>>))
         [] b.cls = "ShenBiharmonicBasis" ->
              ShenBiharmonicBasisInit(N, b.quad,
                                      IF "bc" \in extra THEN b.bc
                                      ELSE BcTuple(<<Zero, Zero, Zero, Zero>>))
         [] b.cls = "ShenOrder6Basis" -> ShenOrder6BasisInit(N, b.quad)

\* get_refined: Basis and ShenDirichletBasis define their own, the other two
\* classes inherit the one of JacobiBase
GetRefined(b, N) ==
  CASE b.cls = "Basis" -> NewInstance(b, N, {"alpha", "beta"})
    [] b.cls = "ShenDirichletBasis" -> NewInstance(b, N, {"bc"})
    [] OTHER -> NewInstance(b, N, {"alpha", "beta"})

\* C29: to_ortho of the Dirichlet and of the Biharmonic basis into an
\* output_array of the caller gives, in every slot, the coefficients it
\* gives into a zero-initialised output, whatever the array held before.
C29_OutputIndependent ==
  last.op = "to_ortho_out" =>
    bufs[1] = (IF TheBasis.cls = "ShenDirichletBasis"
               THEN DirichletToOrtho(TheBasis, fdata[1])
               ELSE BiharmonicToOrtho(TheBasis, fdata[1]))

\* mode of bases.py after import: the value of SHENFUN_JACOBI_MODE, 'numpy'
\* when the variable is unset, and 'numpy' whenever quadpy and mpmath cannot
\* be imported
EffectiveMode(env, has_quadpy) ==
  LET mode == IF env = "unset" THEN "numpy" ELSE env
  IN IF has_quadpy THEN mode ELSE "numpy"

\* the branch mpmath_points_and_weights of the class takes: the return of
\* self.points_and_weights(...) or the rule of quadpy; the name quadpy is
\* unbound when the import failed
MpmathPointsAndWeights(cls, mode, has_quadpy) ==
  IF cls = "ShenBiharmonicBasis"
  THEN IF mode = "numpy" /\ ~has_quadpy THEN "points_and_weights"
       ELSE IF has_quadpy THEN "quadpy" ELSE "NameError"
  ELSE IF mode = "numpy" \/ ~has_quadpy THEN "points_and_weights"
       ELSE IF has_quadpy THEN "quadpy" ELSE "NameError"

\* the transform plan of a basis: how many Transform objects wrap
\* self.forward (0 for the functools.partial of JacobiBase.__init__), the
\* shape (n,) of forward.input_array and self.axis; each planning allocates
\* new arrays U and V, so the count also names the buffers
Unplanned == [n |-> 0, wraps |-> 0, axis |-> 0]

\* a shape argument: the int n or the tuple (n,)
ShapeInt(n) == [n |-> n, type |-> "int"]
ShapeTuple(n) == [n |-> n, type |-> "tuple"]

\* plan(shape, axis, dtype, options) with an int axis: input_array.shape is a
\* tuple and equals shape only when shape is the same tuple
Plan(p, shape, axis) ==
  IF p.wraps > 0 /\ shape.type = "tuple" /\ p.n = shape.n /\ p.axis = axis
  THEN p
  ELSE [n |-> shape.n, wraps |-> p.wraps + 1, axis |-> axis]

\* the plan the constructors leave: self.plan(int(N*padding_factor), 0, dtype,
\* {}) with the default padding_factor of 1
ConstructorPlan(N) == Plan(Unplanned, ShapeInt(N), 0)

\* np.prod([i + alpha + beta + 1 + j for j in range(k)])
RECURSIVE DerivativeFactor(_, _, _, _)
DerivativeFactor(i, alpha, beta, k) ==
  IF k = 0 THEN RatOf(1)
  ELSE RatMul(DerivativeFactor(i, alpha, beta, k - 1),
              RatAdd(RatAdd(RatAdd(RatOf(i), alpha), beta), RatOf(k)))

RECURSIVE Pow2(_)
Pow2(k) == IF k = 0 THEN 1 ELSE 2 * Pow2(k - 1)

\* a column of values: coef times the Jacobi polynomial of index n with the
\* parameters (alpha + shift, beta + shift); the zero column is ZeroColumn
JacobiColumn(coef, n, shift) == [n |-> n, coef |-> coef, shift |-> shift]
ZeroColumn == JacobiColumn(RatOf(0), 0, 0)

\* derivative_jacobi(x, alpha, beta, k): the columns and the indices that
\* jacobi() passes to eval_jacobi
DerivativeJacobi(b, k) ==
  [cols |-> [c \in 1..b.N |->
               LET j == c - 1
               IN IF k = 0 THEN JacobiColumn(RatOf(1), j, 0)
                  ELSE IF j < k THEN ZeroColumn
                  ELSE JacobiColumn(RatDiv(DerivativeFactor(j, b.alpha, b.beta, k),
                                           RatOf(Pow2(k))), j - k, k)],
   calls |-> 0..(b.N - 1)]

\* evaluate_basis_derivative(x, i, k): eval_jacobi is called with i - k
\* whatever its sign
EvaluateBasisDerivative(b, i, k) ==
  [cols |-> <<JacobiColumn(RatDiv(DerivativeFactor(i, b.alpha, b.beta, k),
                                  RatOf(Pow2(k))), i - k, k)>>,
   calls |-> {i - k}]

\* SpectralBase._padding_backward(trunc, padded) and _truncation_forward(padded,
\* trunc) of a one-dimensional basis: the common leading modes are copied,
\* the further modes of a longer target are zero
PaddingBackward(u, n) == [j \in 1..n |-> IF j <= Len(u) THEN u[j] ELSE 0]
TruncationForward(u, n) == [j \in 1..n |-> u[j]]

\* Function.assign(u_hat) for a one-dimensional space: u_hat holds n
\* coefficients
FunctionAssignNeverTruncates(u, n) ==
  IF Len(u) < n THEN PaddingBackward(u, n) ELSE u

FunctionAssign(u, n) ==
  IF Len(u) < n THEN PaddingBackward(u, n)
  ELSE IF Len(u) = n THEN u
  ELSE TruncationForward(u, n)

\* Function.refine(N) for a one-dimensional space
Refine1D(b, u, N) ==
  LET refined_basis == GetRefined(b, N)
  IN IF ~refined_basis.ok
     THEN [space |-> NoBasis, ok |-> FALSE, kind |-> refined_basis.kind,
           data |-> <<>>]
     ELSE [space |-> refined_basis.basis, ok |-> TRUE, kind |-> "Function",
           data |-> FunctionAssign(u, N)]

(***************************************************************************)
(* The calls on one basis of the Jacobi family and on a Function over it.  *)
(* The class, the size, the coefficients and the environment of the        *)
(* import are drawn in the initial state.                                  *)
(***************************************************************************)
MaxWraps == 3
MaxOrder == 2

VariantClasses ==
  {"Basis", "ShenDirichletBasis", "ShenBiharmonicBasis", "ShenOrder6Basis"}
VariantSizes == {4, 5}
RefinedSizes == 3..6
ParameterPairs == {<<Rat(-1, 2), Rat(-1, 2)>>, <<RatOf(0), RatOf(1)>>}
EnvironmentValues == {"unset", "numpy", "mpmath"}
AxisValues == {0, 1}

\* the coefficients of the Function: all different, or a single high mode
VariantCoefficients(N) ==
  {[j \in 1..N |-> j], [j \in 1..N |-> IF j = N THEN -1 ELSE 0]}

NewVariant(cls, N, ab) ==
  IF cls = "Basis" THEN JacobiOrthogonalInit(N, "JG", ab[1], ab[2]).basis
  ELSE NewJacobi(cls, N)

TheModule == exprs[1]
TheMode == EffectiveMode(TheModule.env, TheModule.has_quadpy)

GetRefinedCall(M) ==
  /\ last' = [op |-> "get_refined", out |-> GetRefined(TheBasis, M), N |-> M]
  /\ UNCHANGED <<leaves, fdata, exprs, bufs>>

PlanCall(shape, axis) ==
  /\ bufs[1].wraps < MaxWraps
  /\ bufs' = <<Plan(bufs[1], shape, axis)>>
  /\ last' = [op |-> "plan", axis |-> axis, shape |-> shape]
  /\ UNCHANGED <<leaves, fdata, exprs>>

MpmathPointsAndWeightsCall ==
  /\ last' = [op |-> "mpmath_points_and_weights",
              path |-> MpmathPointsAndWeights(TheBasis.cls, TheMode,
                                              TheModule.has_quadpy)]
  /\ UNCHANGED <<leaves, fdata, exprs, bufs>>

DerivativeAllCall(k) ==
  /\ TheBasis.cls = "Basis"
  /\ last' = [op |-> "evaluate_basis_derivative_all",
              out |-> DerivativeJacobi(TheBasis, k), k |-> k]
  /\ UNCHANGED <<leaves, fdata, exprs, bufs>>

DerivativeCall(i, k) ==
  /\ TheBasis.cls = "Basis"
  /\ last' = [i |-> i, op |-> "evaluate_basis_derivative",
              out |-> EvaluateBasisDerivative(TheBasis, i, k), k |-> k]
  /\ UNCHANGED <<leaves, fdata, exprs, bufs>>

\* v = u.refine(M): v is the second Function, kept when the call returns
RefineCall(M) ==
  /\ Len(leaves) = 1
  /\ LET r == Refine1D(TheBasis, fdata[1], M)
     IN /\ last' = [op |-> "refine", ok |-> r.ok, kind |-> r.kind, N |-> M]
        /\ IF r.ok
           THEN /\ leaves' = Append(leaves, [tag |-> 2, space |-> r.space])
                /\ fdata' = Append(fdata, r.data)
           ELSE UNCHANGED <<leaves, fdata>>
  /\ UNCHANGED <<exprs, bufs>>

\* w = v.refine(u.N), the way back
RefineBackCall ==
  /\ Len(leaves) = 2
  /\ LET r == Refine1D(leaves[2].space, fdata[2], TheBasis.N)
     IN last' = [space |-> r.space, op |-> "refine_back", ok |-> r.ok,
                 kind |-> r.kind, N |-> TheBasis.N, data |-> r.data]
  /\ UNCHANGED <<leaves, fdata, exprs, bufs>>

InitVariant ==
  /\ \E cls \in VariantClasses, N \in VariantSizes, ab \in ParameterPairs :
       /\ leaves = <<[tag |-> 2, space |-> NewVariant(cls, N, ab)]>>
       /\ fdata \in {<<u>> : u \in VariantCoefficients(N)}
       /\ bufs = <<ConstructorPlan(N)>>
  /\ exprs \in {<<[env |-> e, has_quadpy |-> h]>> :
                  e \in EnvironmentValues, h \in BOOLEAN}
  /\ last = [op |-> "init"]

NextVariant ==
  \/ \E M \in RefinedSizes : GetRefinedCall(M)
  \/ \E n \in VariantSizes, axis \in AxisValues :
        PlanCall(ShapeInt(n), axis) \/ PlanCall(ShapeTuple(n), axis)
  \/ MpmathPointsAndWeightsCall
  \/ \E k \in 0..MaxOrder : DerivativeAllCall(k)
  \/ \E i \in 0..(TheBasis.N - 1), k \in 0..MaxOrder : DerivativeCall(i, k)
  \/ \E M \in RefinedSizes : RefineCall(M)
  \/ RefineBackCall

SpecVariant == InitVariant /\ [][NextVariant]_vars

\* C30: get_refined(M) of every variant returns a basis of the same class with
\* N = M and the quadrature, boundary condition and (alpha, beta) of the
\* original, which the call leaves as it was.
C30_GetRefined ==
  last.op = "get_refined" =>
    /\ last.out.ok
    /\ last.out.basis = [TheBasis EXCEPT !.N = last.N]

\* C23: the effective mode is 'numpy' whenever quadpy and mpmath are not
\* available, whatever the environment says, and mpmath_points_and_weights of
\* every variant takes the extended path only when the effective mode is the
\* extended one; otherwise it returns what points_and_weights returns.
C23_ModeSelection ==
  /\ ~TheModule.has_quadpy => TheMode = "numpy"
  /\ last.op = "mpmath_points_and_weights" =>
       IF TheMode = "mpmath" THEN last.path = "quadpy"
       ELSE last.path = "points_and_weights"

\* C27: once the constructor has planned the basis (shape
\* int(N*padding_factor), axis 0), a further plan with the same shape and
\* axis is a no-op: forward, backward, backward_uniform, scalar_product and
\* the buffers stay as they are, and only another shape or axis re-plans.
C27_PlanIdempotent ==
  [][(last'.op = "plan" /\ last'.shape.n = bufs[1].n
        /\ last'.axis = bufs[1].axis) => bufs' = bufs]_vars

\* C22: for the orthogonal basis the k-th derivative of mode i < k is zero as
\* column i of evaluate_basis_derivative_all and as the value of
\* evaluate_basis_derivative, and eval_jacobi is never called with a
\* negative index; for i >= k both are prod_{j<k}(i+alpha+beta+1+j)/2^k times
\* the Jacobi polynomial of index i-k with parameters (alpha+k, beta+k).
C22_DerivativeColumn(i, k) ==
  IF i < k THEN ZeroColumn
  ELSE JacobiColumn(RatDiv(DerivativeFactor(i, TheBasis.alpha, TheBasis.beta, k),
                           RatOf(Pow2(k))), i - k, k)

C22_Derivative ==
  /\ last.op = "evaluate_basis_derivative_all" =>
       /\ \A n \in last.out.calls : n >= 0
       /\ \A c \in 1..TheBasis.N :
            last.out.cols[c] = C22_DerivativeColumn(c - 1, last.k)
  /\ last.op = "evaluate_basis_derivative" =>
       /\ \A n \in last.out.calls : n >= 0
       /\ last.out.cols[1] = C22_DerivativeColumn(last.i, last.k)

GridSize == 5

Transpose(a) ==
  [c \in 1..Len(a[1]) |-> [r \in 1..Len(a) |-> a[r][c]]]

ZeroGrid(n0, n1) == [r \in 1..n0 |-> Zeros(n1)]

\* TensorProductSpace.get_nonperiodic_axes(): the axes whose basis is not of
\* the Fourier family, in increasing order
GetNonperiodicAxes(space) ==
  LET np0 == space[1].family # "fourier"
      np1 == space[2].family # "fourier"
  IN IF np0 /\ np1 THEN <<0, 1>>
     ELSE IF np0 THEN <<0>>
     ELSE IF np1 THEN <<1>>
     ELSE <<>>

\* base.is_orthogonal: True for the orthogonal classes only
IsOrthogonal(b) == b.cls \in {"Basis", "R2CBasis", "C2CBasis"}

\* base.to_ortho(input_array, output_array) for the basis of one axis of the
\* space: self.sl slices along that axis
AxisToOrtho(b, axis, in, out) ==
  LET along(i, o) == IF b.cls = "ShenDirichletBasis"
                     THEN DirichletToOrthoInto(b, i, o)
                     ELSE BiharmonicToOrthoInto(b, i, o)
  IN IF axis = 1 THEN [r \in 1..Len(in) |-> along(in[r], out[r])]
     ELSE Transpose([c \in 1..Len(in[1]) |->
                       along(Transpose(in)[c], Transpose(out)[c])])

\* Function.to_ortho() of a Function u over a space of rank 0 and two
\* dimensions, with output_array = Function(space), an array of zeros
FunctionToOrtho(space, u) ==
  LET naxes == GetNonperiodicAxes(space)
      zero == ZeroGrid(Len(u), Len(u[1]))
  IN IF naxes = <<>> THEN [ok |-> FALSE, kind |-> "IndexError", out |-> zero]
     ELSE LET base == space[naxes[1] + 1]
              first == IF ~IsOrthogonal(base)
                       THEN AxisToOrtho(base, naxes[1], u, zero)
                       ELSE zero
          IN IF Len(naxes) > 1
             THEN LET next == space[naxes[2] + 1]
                      input_array == first
                  IN [ok |-> TRUE, kind |-> "Function",
                      out |-> IF ~IsOrthogonal(next)
                              THEN AxisToOrtho(next, naxes[2], input_array, first)
                              ELSE first]
             ELSE [ok |-> TRUE, kind |-> "Function", out |-> first]

GridBases ==
  {JacobiOrthogonalInit(GridSize, "JG", Rat(-1, 2), Rat(-1, 2)).basis,
   NewJacobi("ShenDirichletBasis", GridSize),
   NewJacobi("ShenBiharmonicBasis", GridSize),
   FourierBasis(GridSize, BcNone, "None", "D").basis}

\* coefficient arrays: one entry set, or the entries of a leading block
GridCoefficients ==
  {[r \in 1..GridSize |-> [c \in 1..GridSize |->
       RatOf(IF r = r0 /\ c = c0 THEN 1 ELSE 0)]] :
     r0 \in 1..GridSize, c0 \in 1..GridSize}
  \cup {[r \in 1..GridSize |-> [c \in 1..GridSize |->
       RatOf(IF r <= m /\ c <= m THEN r + 2 * c ELSE 0)]] : m \in 1..GridSize}

TheSpace == leaves[1].space

FunctionToOrthoCall ==
  /\ last.op = "init"
  /\ LET r == FunctionToOrtho(TheSpace, fdata[1])
     IN /\ bufs' = <<r.out>>
        /\ last' = [op |-> "to_ortho", ok |-> r.ok, kind |-> r.kind]
  /\ UNCHANGED <<leaves, fdata, exprs>>

InitGrid ==
  /\ \E b0 \in GridBases, b1 \in GridBases :
       leaves = <<[tag |-> 2, space |-> <<b0, b1>>]>>
  /\ fdata \in {<<u>> : u \in GridCoefficients}
  /\ exprs = <<>>
  /\ bufs = <<>>
  /\ last = [op |-> "init", ok |-> TRUE, kind |-> "None"]

NextGrid == FunctionToOrthoCall

SpecGrid == InitGrid /\ [][NextGrid]_vars

\* the change of basis of one axis into a zero-initialised array, the
\* identity for an orthogonal axis
C24_AxisChange(b, axis, u) ==
  IF IsOrthogonal(b) THEN u
  ELSE AxisToOrtho(b, axis, u, ZeroGrid(Len(u), Len(u[1])))

RECURSIVE C24_Composition(_, _, _)
C24_Composition(space, naxes, u) ==
  IF naxes = <<>> THEN u
  ELSE C24_Composition(space, Tail(naxes),
                       C24_AxisChange(space[Head(naxes) + 1], Head(naxes), u))

\* C24: Function.to_ortho on a space of several dimensions returns the
\* composition, over the non-periodic axes in order, of the change of basis of
\* each axis, an orthogonal axis acting as the identity: the input is carried
\* through an orthogonal first axis, and with all axes orthogonal the result
\* is the input.
C24_ToOrthoComposition ==
  (last.op = "to_ortho" /\ GetNonperiodicAxes(TheSpace) # <<>>) =>
     /\ last.ok
     /\ bufs[1] = C24_Composition(TheSpace, GetNonperiodicAxes(TheSpace), fdata[1])

(***************************************************************************)
(* Function.refine on a space of several axes.  In the specification of    *)
(* this section `leaves` holds one Function over the space, whose `space`  *)
(* gives for every axis whether its basis is an R2CBasis and its N, and    *)
(* the order `axes` of the transforms; `bufs` holds the record of the last *)
(* call: the resize of every axis, the redistributions and the array       *)
(* handed to the refined Function.                                         *)
(***************************************************************************)
MaxDims == 3

OldSizes == {3, 4}
NewSizes == {2, 4, 5, 6}

\* the global spectral shape of the Function: N // 2 + 1 modes for a
\* real-to-complex axis, N for every other
GlobalShape(space) ==
  [a \in 1..Len(space.bases) |->
     IF space.bases[a].r2c THEN space.bases[a].N \div 2 + 1
     ELSE space.bases[a].N]

\* int(m * (Nnew / Nold)) for positive numbers, the quotient taken exactly
Scaled(m, Nnew, Nold) == (m * Nnew) \div Nold

\* the new length of axes[0]
FirstLength(base, len, Nnew) ==
  IF base.r2c THEN Scaled(2 * len - 2, Nnew, base.N) \div 2 + 1
  ELSE Scaled(len, Nnew, base.N)

\* the new length of one of axes[1:]
LaterLength(base, len, Nnew) ==
  IF base.r2c THEN Scaled(base.N, Nnew, base.N) \div 2 + 1
  ELSE Scaled(len, Nnew, base.N)

\* the resize of one axis: which axis, the alignment of the data at that
\* moment, the new length and the method of the basis that copies
ResizeAlwaysPads(ax, aligned, old, new) ==
  [op |-> "_padding_backward", len |-> new, ax |-> ax, aligned |-> aligned]

Resize(ax, aligned, old, new) ==
  [op |-> IF old <= new THEN "_padding_backward" ELSE "_truncation_forward",
   len |-> new, ax |-> ax, aligned |-> aligned]

\* the loop over axes[1:]: c0 = c1.redistribute(ax), then the resize of ax
\* into an array aligned along ax
RECURSIVE RefineLater(_, _, _, _, _)
RefineLater(space, N, rest, shape, r) ==
  IF rest = <<>> THEN r
  ELSE LET ax == Head(rest)
           new == LaterLength(space.bases[ax + 1], shape[ax + 1], N[ax + 1])
       IN RefineLater(space, N, Tail(rest), [shape EXCEPT ![ax + 1] = new],
            [r EXCEPT !.shape = [shape EXCEPT ![ax + 1] = new],
                      !.moves = Append(@, ax),
                      !.alignment = ax,
                      !.steps = Append(@, Resize(ax, ax, GlobalShape(space)[ax + 1], new))])

\* reversed(s)
RECURSIVE Reversed(_)
Reversed(s) == IF s = <<>> THEN <<>> ELSE Append(Reversed(Tail(s)), Head(s))

\* for ax in reversed(axes[:-1]): c1 = c1.redistribute(ax)
RECURSIVE RedistributeBack(_, _)
RedistributeBack(back, r) ==
  IF back = <<>> THEN r
  ELSE RedistributeBack(Tail(back), [r EXCEPT !.moves = Append(@, Head(back)),
                                              !.alignment = Head(back)])

\* Function.refine(N) of a Function of alignment `alignment` over a
\* TensorProductSpace
RefineAxes(space, alignment, N) ==
  LET axes == space.axes
      old == GlobalShape(space)
      a0 == axes[1]
      new == FirstLength(space.bases[a0 + 1], old[a0 + 1], N[a0 + 1])
      shape == [old EXCEPT ![a0 + 1] = new]
      first == [shape |-> shape, moves |-> <<>>, alignment |-> alignment,
                steps |-> <<Resize(a0, alignment, old[a0 + 1], new)>>]
  IN RedistributeBack(Reversed(SubSeq(axes, 1, Len(axes) - 1)),
                      RefineLater(space, N, Tail(axes), shape, first))

\* the orders of the axes 0..d-1
AxisOrders(d) ==
  {s \in [1..d -> 0..(d - 1)] : \A i, j \in 1..d : i # j => s[i] # s[j]}

RefineSpaces ==
  UNION {{[bases |-> b, axes |-> a] :
            b \in [1..d -> [N : OldSizes, r2c : BOOLEAN]], a \in AxisOrders(d)} :
         d \in 2..MaxDims}

RefineFunction == leaves[1]

\* u.refine(N) with one new size for every axis
RefineAxesCall(N) ==
  /\ last.op = "init"
  /\ Len(N) = Len(RefineFunction.space.bases)
  /\ bufs' = <<RefineAxes(RefineFunction.space, RefineFunction.alignment, N)>>
  /\ last' = [op |-> "refine", N |-> N]
  /\ UNCHANGED <<leaves, fdata, exprs>>

\* a spectral Function is aligned along the axis transformed last, axes[0]
InitRefine ==
  /\ \E space \in RefineSpaces :
       leaves = <<[tag |-> 2, space |-> space, alignment |-> space.axes[1]]>>
  /\ fdata = <<>>
  /\ exprs = <<>>
  /\ bufs = <<>>
  /\ last = [op |-> "init", N |-> <<>>]

NextRefine ==
  \E d \in 2..MaxDims : \E N \in [1..d -> NewSizes] : RefineAxesCall(N)

SpecRefine == InitRefine /\ [][NextRefine]_vars

\* C25: refine gives every real-to-complex axis, the first or a later one and
\* for odd and even N, the new length floor((2*old_len-2)*factor)/2+1 with
\* factor = N_new/N_old, which is floor(N_new/2)+1, the length of that axis in
\* the refined space; every other axis gets floor(old_len*factor).
C25_RefinedLengths ==
  last.op = "refine" =>
    \A a \in 1..Len(last.N) :
       LET base == RefineFunction.space.bases[a]
           old_len == GlobalShape(RefineFunction.space)[a]
           new_len == bufs[1].shape[a]
       IN IF base.r2c
          THEN /\ new_len = Scaled(2 * old_len - 2, last.N[a], base.N) \div 2 + 1
               /\ new_len = last.N[a] \div 2 + 1
          ELSE new_len = Scaled(old_len, last.N[a], base.N)

\* C26: refine on several axes resizes the axes in the order axes[0],
\* axes[1], ..., axes[-1], each exactly once and while the data is aligned
\* along it, padding when the old global length is at most the new one and
\* truncating otherwise; it then redistributes back through the same axes in
\* reverse, so that the result has the alignment of the input.
C26_AxisOrder ==
  last.op = "refine" =>
    LET axes == RefineFunction.space.axes
        d == Len(axes)
        r == bufs[1]
    IN /\ Len(r.steps) = d
       /\ \A i \in 1..d :
            /\ r.steps[i].ax = axes[i]
            /\ r.steps[i].aligned = axes[i]
            /\ r.steps[i].len = r.shape[axes[i] + 1]
            /\ r.steps[i].op =
                 (IF GlobalShape(RefineFunction.space)[axes[i] + 1] <= r.steps[i].len
                  THEN "_padding_backward" ELSE "_truncation_forward")
       /\ r.moves = Tail(axes) \o Reversed(SubSeq(axes, 1, d - 1))
       /\ r.alignment = RefineFunction.alignment

C26_Witness ==
  /\ last.op = "refine"
  /\ last.N = <<6, 2, 5>>
  /\ RefineFunction.space.axes = <<2, 0, 1>>
  /\ bufs[1].moves = <<0, 1, 0, 2>>
  /\ bufs[1].alignment = 2
  /\ \E i \in 1..3 : bufs[1].steps[i].op = "_truncation_forward"
  /\ \E i \in 1..3 : bufs[1].steps[i].op = "_padding_backward"

====
